---- MODULE Spec2Model ----
(***************************************************************************)
(* A model of the mjolnir routing-graph builder: the OSM way/node passes   *)
(* and edge construction of GraphBuilder (src/unnamed/part_000), the       *)
(* per-tile directed-edge builder run by worker threads, and the graph     *)
(* validator (second half of src/src/mjolnir/osmrestriction.cc) that       *)
(* resolves opposing edges and country crossings with a pool of workers.   *)
(*                                                                         *)
(* Indices are kept 0-based as in the C++ code; a TLA+ sequence s holds    *)
(* the element with C++ index k at s[k + 1].                               *)
(***************************************************************************)
EXTENDS Integers, Sequences, FiniteSets, TLC

VARIABLES
  phase,      \* position of the driver (GraphBuilder::Build, then Validate)
  gb,         \* the GraphBuilder object: bitsets, ways_, nodes_, edges_, tilednodes_
  cursor,     \* next OSM node id the PBF reader will hand to node_callback
  conc,       \* number of worker threads of the parallel phases
  tiles,      \* the tile store on disk: tile id -> tile
  threads,    \* the BuildTileSet workers: their tile range and position in it
  transit,    \* the transit builder: the feed, the stops read and its workers
  tilequeue,  \* the validator's shared queue of tile ids
  vthreads,   \* the validate workers: position, tile under work, graph reader
  log,        \* history: for each tile, how often each phase handled it
  stats,      \* the validator_stats Validate merged from its workers' results
  lock        \* the mutex of Validate: its holder, the workers between lock()
              \* and unlock(), and how far each worker is in its step

vars == <<phase, gb, cursor, conc, tiles, threads, transit, tilequeue, vthreads, log,
          stats, lock>>
tilevars == <<conc, tiles, threads, transit, tilequeue, vthreads, log, stats, lock>>

\* The mutex where every critical section is taken as one step of its
\* worker, and the mutex of Validate (line 577) with n workers: unlocked, and
\* no worker within a step.
NoMutex == [modelled |-> FALSE, holder |-> {}, inside |-> {}, section |-> <<>>]

Mutex(n) == [modelled |-> TRUE, holder |-> {}, inside |-> {}, section |-> [i \in 0..(n - 1) |-> 0]]

-----------------------------------------------------------------------------
(* Bounds of the model *)

\* OSM node ids are 1..MaxOsmId; it is also the declared maximum of the two
\* NodeIdTables (kMaxOSMNodeId is 4000000000 in the code).
MaxOsmId == 3
\* Total number of node refs over all accepted ways of one input file.
MaxTotalRefs == 5

(* Program constants *)
kWordBits == 64
kMaxNoThruTries == 256
kTertiaryUnclassified == 3
kResidential == 4

NodeIds == 1..MaxOsmId

-----------------------------------------------------------------------------
(* NodeIdTable: one bit per OSM id, in 64-bit words *)

\* NodeIdTable::NodeIdTable: (maxosmid / 64) + 1 words, all zero. A word is
\* modelled as the set of its bit positions that are 1.
NodeIdTable(maxosmid) ==
  [maxosmid_ |-> maxosmid,
   bitmarkers_ |-> [w \in 0..(maxosmid \div kWordBits) |-> {}]]

\* NodeIdTable::set past the range check: bitmarkers_[id / 64] |= 1 << (id % 64)
set(t, id) ==
  [t EXCEPT !.bitmarkers_[id \div kWordBits] = @ \cup {id % kWordBits}]

\* NodeIdTable::set throws when id > maxosmid_
setThrows(t, id) == id > t.maxosmid_

\* NodeIdTable::IsUsed: bitmarkers_[id / 64] & (1 << (id % 64))
IsUsed(t, id) == (id % kWordBits) \in t.bitmarkers_[id \div kWordBits]

\* set whose range check also refuses the declared maximum itself.
setCallAtMax(t, id) ==
  IF id >= t.maxosmid_ THEN [threw |-> TRUE, table |-> t]
  ELSE [threw |-> FALSE, table |-> set(t, id)]

\* A call of NodeIdTable::set: it throws before it touches a word, or sets
\* the bit.
setCall(t, id) ==
  IF setThrows(t, id) THEN [threw |-> TRUE, table |-> t]
  ELSE [threw |-> FALSE, table |-> set(t, id)]

\* What a call of NodeIdTable::IsUsed may return. It checks no range: for an
\* id past the last word of bitmarkers_ it reads outside the vector, and the
\* bit it finds there may be either.
IsUsedCall(t, id) ==
  IF id \div kWordBits \in DOMAIN t.bitmarkers_ THEN {IsUsed(t, id)} ELSE BOOLEAN

-----------------------------------------------------------------------------
(* The OSM store *)

\* The lat,lng a default-constructed OSMNode carries (nodes_[id] on a missing id).
DefaultLL == 0

\* GraphId(): the id of no node.
InvalidGraphId == [valid |-> FALSE, tileid |-> -1, id |-> -1]

\* OSMNode(lng, lat): no edges, invalid graph id.
OSMNode(ll) == [latlng |-> ll, edges |-> <<>>, graphid |-> InvalidGraphId]

\* nodes_[nodeid] of std::unordered_map: inserts a default node when absent.
NodeAt(nodes, id) ==
  IF id \in DOMAIN nodes THEN nodes ELSE (id :> OSMNode(DefaultLL)) @@ nodes

\* OSMNode::AddEdge on nodes_[id], were it to keep an index once only.
AddEdgeOnce(nodes, id, edgeindex) ==
  LET ns == NodeAt(nodes, id)
  IN IF \E n \in 1..Len(ns[id].edges) : ns[id].edges[n] = edgeindex
       THEN ns
       ELSE [ns EXCEPT ![id].edges = Append(@, edgeindex)]

\* OSMNode::AddEdge on nodes_[id]
AddEdge(nodes, id, edgeindex) ==
  LET ns == NodeAt(nodes, id)
  IN [ns EXCEPT ![id].edges = Append(@, edgeindex)]

\* GraphBuilder::GraphBuilder
NewGraphBuilder ==
  [shape_ |-> NodeIdTable(MaxOsmId),
   intersection_ |-> NodeIdTable(MaxOsmId),
   ways_ |-> <<>>,
   nodes_ |-> <<>>,
   edges_ |-> <<>>,
   tilednodes_ |-> <<>>]

-----------------------------------------------------------------------------
(* GraphBuilder::way_callback *)

\* MarkRefs with shape_.set(ref) moved before the IsUsed test: every ref of a
\* way becomes an intersection.
RECURSIVE MarkRefsSetFirst(_, _, _)
MarkRefsSetFirst(g, refs, i) ==
  IF i > Len(refs) THEN g
  ELSE LET ref == refs[i]
           g1 == [g EXCEPT !.shape_ = set(@, ref)]
           g2 == IF IsUsed(g1.shape_, ref)
                   THEN [g1 EXCEPT !.intersection_ = set(@, ref)]
                   ELSE g1
       IN MarkRefsSetFirst(g2, refs, i + 1)

\* The loop over refs (lines 205-214): a ref already in shape_ becomes an
\* intersection; every ref is put in shape_.
RECURSIVE MarkRefs(_, _, _)
MarkRefs(g, refs, i) ==
  IF i > Len(refs) THEN g
  ELSE LET ref == refs[i]
           g1 == IF IsUsed(g.shape_, ref)
                   THEN [g EXCEPT !.intersection_ = set(@, ref)]
                   ELSE g
       IN MarkRefs([g1 EXCEPT !.shape_ = set(@, ref)], refs, i + 1)

\* The way as stored: refs and the attributes the later phases read.
OSMWay(refs, tags) ==
  [refs |-> refs,
   road_class |-> tags.road_class,
   auto_forward |-> tags.auto_forward,
   auto_backward |-> tags.auto_backward,
   pedestrian |-> tags.pedestrian,
   link |-> tags.link,
   speed |-> tags.speed]

\* way_callback without intersection_.set(refs.back()).
way_callbackNoBack(g, refs, accepted, tags) ==
  IF Len(refs) < 2 THEN g
  ELSE IF ~accepted THEN g
  ELSE LET g1 == MarkRefs(g, refs, 1)
           g2 == [g1 EXCEPT !.intersection_ = set(@, refs[1])]
       IN [g2 EXCEPT !.ways_ = Append(@, OSMWay(refs, tags))]

\* way_callback(osmid, tags, refs); accepted is "the Lua result is not empty",
\* tags the classifier's output, with the speed the way is given at lines
\* 384-387.
way_callback(g, refs, accepted, tags) ==
  IF Len(refs) < 2 THEN g
  ELSE IF ~accepted THEN g
  ELSE LET g1 == MarkRefs(g, refs, 1)
           g2 == [g1 EXCEPT !.intersection_ = set(set(@, refs[1]), refs[Len(refs)])]
       IN [g2 EXCEPT !.ways_ = Append(@, OSMWay(refs, tags))]

-----------------------------------------------------------------------------
(* GraphBuilder::node_callback *)

\* node_callback(osmid, lng, lat, tags); accepted is "the Lua result is not
\* empty". emplace keeps an existing entry.
node_callback(g, osmid, ll, accepted) ==
  IF ~IsUsed(g.shape_, osmid) THEN g
  ELSE IF ~accepted THEN g
  ELSE IF osmid \in DOMAIN g.nodes_ THEN g
  ELSE [g EXCEPT !.nodes_ = (osmid :> OSMNode(ll)) @@ @]

\* What a call of node_callback may leave behind. For an osmid whose word
\* lies past the end of shape_'s words the test reads outside the vector: the
\* callback returns at once or goes on to emplace.
node_callbackCall(g, osmid, ll, accepted) ==
  IF osmid \div kWordBits \in DOMAIN g.shape_.bitmarkers_
  THEN {node_callback(g, osmid, ll, accepted)}
  ELSE {g,
        IF ~accepted \/ osmid \in DOMAIN g.nodes_ THEN g
        ELSE [g EXCEPT !.nodes_ = (osmid :> OSMNode(ll)) @@ @]}

-----------------------------------------------------------------------------
(* GraphBuilder::ConstructEdges *)

\* Edge(nodeid, wayindex, ll, way): an edge starting at nodeid. firstref is
\* the position (0-based) in the way's refs at which the edge starts; the code
\* does not store it, the model keeps it to name the refs an edge covers.
Edge(nodeid, wayindex, ll, way, firstref) ==
  [sourcenode_ |-> nodeid,
   targetnode_ |-> 0,
   wayindex_ |-> wayindex,
   latlngs_ |-> <<ll>>,
   attributes_ |-> [driveableforward |-> way.auto_forward,
                    driveablereverse |-> way.auto_backward,
                    importance |-> way.road_class],
   firstref |-> firstref]

\* WalkWay that ends an edge only at the last ref of the way, whatever the
\* intersection bits say.
RECURSIVE WalkWayNoSplit(_, _, _, _, _, _)
WalkWayNoSplit(st, intersection, way, wayindex, i, edge) ==
  IF i >= Len(way.refs) THEN st
  ELSE
    LET nodeid == way.refs[i + 1]
        nodes1 == NodeAt(st.nodes_, nodeid)
        edge1 == [edge EXCEPT !.latlngs_ = Append(@, nodes1[nodeid].latlng)]
    IN IF i = Len(way.refs) - 1
         THEN [nodes_ |-> AddEdge(nodes1, nodeid, Len(st.edges_)),
               edges_ |-> Append(st.edges_, [edge1 EXCEPT !.targetnode_ = nodeid])]
         ELSE WalkWayNoSplit([nodes_ |-> nodes1, edges_ |-> st.edges_],
                             intersection, way, wayindex, i + 1, edge1)

\* The inner loop of ConstructEdges (lines 423-446); i is the C++ index of
\* the ref, st the pair [nodes_, edges_], edge the edge under construction.
RECURSIVE WalkWay(_, _, _, _, _, _)
WalkWay(st, intersection, way, wayindex, i, edge) ==
  IF i >= Len(way.refs) THEN st
  ELSE
    LET nodeid == way.refs[i + 1]
        nodes1 == NodeAt(st.nodes_, nodeid)
        edge1 == [edge EXCEPT !.latlngs_ = Append(@, nodes1[nodeid].latlng)]
    IN IF IsUsed(intersection, nodeid)
         THEN LET edgeindex == Len(st.edges_)
                  nodes2 == AddEdge(nodes1, nodeid, edgeindex)
                  edges2 == Append(st.edges_, [edge1 EXCEPT !.targetnode_ = nodeid])
              IN IF i < Len(way.refs) - 1
                   THEN WalkWay([nodes_ |-> AddEdge(nodes2, nodeid, edgeindex + 1),
                                 edges_ |-> edges2],
                                intersection, way, wayindex, i + 1,
                                Edge(nodeid, wayindex, nodes2[nodeid].latlng, way, i))
                   ELSE WalkWay([nodes_ |-> nodes2, edges_ |-> edges2],
                                intersection, way, wayindex, i + 1, edge1)
         ELSE WalkWay([nodes_ |-> nodes1, edges_ |-> st.edges_],
                      intersection, way, wayindex, i + 1, edge1)

\* The outer loop of ConstructEdges (lines 410-420) from way wayindex on.
RECURSIVE ConstructFrom(_, _, _, _)
ConstructFrom(st, intersection, ways, wayindex) ==
  IF wayindex >= Len(ways) THEN st
  ELSE
    LET way == ways[wayindex + 1]
        nodeid == way.refs[1]
        edgeindex == Len(st.edges_)
        nodes1 == AddEdge(st.nodes_, nodeid, edgeindex)
        edge == Edge(nodeid, wayindex, NodeAt(st.nodes_, nodeid)[nodeid].latlng, way, 0)
    IN ConstructFrom(WalkWay([nodes_ |-> nodes1, edges_ |-> st.edges_],
                             intersection, way, wayindex, 1, edge),
                     intersection, ways, wayindex + 1)

ConstructEdges(g) ==
  LET st == ConstructFrom([nodes_ |-> g.nodes_, edges_ |-> g.edges_],
                          g.intersection_, g.ways_, 0)
  IN [g EXCEPT !.nodes_ = st.nodes_, !.edges_ = st.edges_]

-----------------------------------------------------------------------------
(* EdgeSorter and GraphBuilder::SortEdgesFromNodes *)

EdgeAt(edges, edgeindex) == edges[edgeindex + 1]

\* Driveability of an edge seen from node osmnodeid_ (lines 466-472).
DriveableAt(edges, osmnodeid, edgeindex) ==
  LET e == EdgeAt(edges, edgeindex)
      forward == (e.sourcenode_ = osmnodeid)
  IN \/ forward /\ e.attributes_.driveableforward
     \/ ~forward /\ e.attributes_.driveablereverse

\* EdgeSorter::operator(): e1 goes before e2.
EdgeSorter(edges, osmnodeid, e1index, e2index) ==
  LET e1drive == DriveableAt(edges, osmnodeid, e1index)
      e2drive == DriveableAt(edges, osmnodeid, e2index)
  IN IF e1drive = e2drive
       THEN EdgeAt(edges, e1index).attributes_.importance
              < EdgeAt(edges, e2index).attributes_.importance
       ELSE e1drive /\ ~e2drive

\* list without its i-th element.
RemoveAt(list, i) ==
  [k \in 1..(Len(list) - 1) |-> IF k < i THEN list[k] ELSE list[k + 1]]

\* All sequences holding the elements of list, each as often as list does.
RECURSIVE Arrangements(_)
Arrangements(list) ==
  IF list = <<>> THEN {<<>>}
  ELSE UNION {{<<list[i]>> \o rest : rest \in Arrangements(RemoveAt(list, i))} :
                i \in 1..Len(list)}

\* What std::sort may leave in a node's edge list: any arrangement of it in
\* which no element is ordered before one that precedes it. std::sort is not
\* stable, so elements the comparator ties may end in either order.
SortOutcomes(edges, osmnodeid, list) ==
  {s \in Arrangements(list) :
     \A a, b \in 1..Len(s) :
       a < b => ~EdgeSorter(edges, osmnodeid, s[b], s[a])}

\* SortEdgesFromNodes: the graph builders it may leave. `done` holds the
\* nodes already sorted.
RECURSIVE SortFrom(_, _)
SortFrom(g, todo) ==
  IF todo = {} THEN {g}
  ELSE LET id == CHOOSE x \in todo : TRUE
       IN UNION {SortFrom([g EXCEPT !.nodes_[id].edges = s], todo \ {id}) :
                   s \in SortOutcomes(g.edges_, id, g.nodes_[id].edges)}

SortEdgesFromNodes(g) == SortFrom(g, DOMAIN g.nodes_)

-----------------------------------------------------------------------------
(* GraphBuilder::TileNodes *)

\* Width of a tile, in coordinate units (Tiles::TileSize).
TileSize == 2

\* GraphId(tileid, level, id); the level is the one local level throughout.
GraphId(tileid, id) == [valid |-> TRUE, tileid |-> tileid, id |-> id]

\* TileHierarchy::GetGraphId(latlng, level): the tile holding a coordinate.
GetGraphId(ll) == GraphId(ll \div TileSize, 0)

\* The loop of TileNodes with the size of the tile's list as the index of the
\* graph id.
RECURSIVE TileFromSize(_, _)
TileFromSize(g, order) ==
  IF order = <<>> THEN g
  ELSE
    LET osmid == Head(order)
        node == g.nodes_[osmid]
    IN IF Len(node.edges) = 0 THEN TileFromSize(g, Tail(order))
       ELSE
         LET tileid == GetGraphId(node.latlng).tileid
             tile == IF tileid \in DOMAIN g.tilednodes_
                       THEN g.tilednodes_[tileid] ELSE <<>>
             tile1 == Append(tile, osmid)
         IN TileFromSize([g EXCEPT
                            !.tilednodes_ = (tileid :> tile1) @@ @,
                            !.nodes_[osmid].graphid = GraphId(tileid, Len(tile1))],
                         Tail(order))

\* The loop of TileNodes over nodes_ taken in the order `order` (lines 767-779).
RECURSIVE TileFrom(_, _)
TileFrom(g, order) ==
  IF order = <<>> THEN g
  ELSE
    LET osmid == Head(order)
        node == g.nodes_[osmid]
    IN IF Len(node.edges) = 0 THEN TileFrom(g, Tail(order))
       ELSE
         LET tileid == GetGraphId(node.latlng).tileid
             tile == IF tileid \in DOMAIN g.tilednodes_
                       THEN g.tilednodes_[tileid] ELSE <<>>
             tile1 == Append(tile, osmid)
         IN TileFrom([g EXCEPT
                        !.tilednodes_ = (tileid :> tile1) @@ @,
                        !.nodes_[osmid].graphid = GraphId(tileid, Len(tile1) - 1)],
                     Tail(order))

\* The orders in which nodes_ (a std::unordered_map) may be iterated: by
\* ascending or by descending OSM id.
RECURSIVE Ascending(_)
Ascending(ids) ==
  IF ids = {} THEN <<>>
  ELSE LET m == CHOOSE x \in ids : \A y \in ids : x <= y
       IN <<m>> \o Ascending(ids \ {m})

Reverse(s) == [k \in 1..Len(s) |-> s[Len(s) + 1 - k]]

IterationOrders(ids) == {Ascending(ids), Reverse(Ascending(ids))}

TileNodes(g, order) == TileFrom(g, order)

-----------------------------------------------------------------------------
(* The tile builder: GetOpposingIndex, IsNoThroughEdge, BuildTileSet *)

\* What GetOpposingIndex returns when it finds no edge (line 516).
kNoOpposingIndex == 31
\* RoadClass::kOther, the least important class.
kOther == 7

Abs(x) == IF x < 0 THEN -x ELSE x

\* PointLL::Length(list): the length of a polyline.
RECURSIVE Length(_)
Length(latlngs) ==
  IF Len(latlngs) < 2 THEN 0
  ELSE Abs(latlngs[1] - latlngs[2]) + Length(Tail(latlngs))

\* All sequences that take their k-th element from sets[k].
RECURSIVE SeqProduct(_)
SeqProduct(sets) ==
  IF sets = <<>> THEN {<<>>}
  ELSE {<<h>> \o t : h \in Head(sets), t \in SeqProduct(Tail(sets))}

\* GetOpposingIndex: position, in the end node's edge list, of the first edge
\* that joins endnode and startnode in either orientation.
GetOpposingIndex(endnode, startnode, nodes, edges) ==
  IF endnode \in DOMAIN nodes
    THEN LET list == nodes[endnode].edges
             hits == {n \in 1..Len(list) :
                        LET e == EdgeAt(edges, list[n])
                        IN \/ e.sourcenode_ = endnode /\ e.targetnode_ = startnode
                           \/ e.targetnode_ = endnode /\ e.sourcenode_ = startnode}
         IN IF hits = {} THEN kNoOpposingIndex
            ELSE (CHOOSE n \in hits : \A m \in hits : n <= m) - 1
    ELSE kNoOpposingIndex

\* The edges one iteration of IsNoThroughEdge expands: those of endnode (the
\* code looks up endnode, line 549, not the node taken off the expand set),
\* without the start edge.
ExpandedEdges(endnode, startedgeindex, nodes) ==
  IF endnode \in DOMAIN nodes
    THEN {nodes[endnode].edges[k] : k \in 1..Len(nodes[endnode].edges)}
           \ {startedgeindex}
    ELSE {}

\* osmendnode of line 557, computed against the node taken off the expand set.
OsmEndNode(edge, node) ==
  IF edge.sourcenode_ = node THEN edge.targetnode_ ELSE edge.sourcenode_

\* The iteration for `node` returns false (lines 562-566).
ReturnsFalse(node, startnode, endnode, startedgeindex, nodes, edges) ==
  \E ei \in ExpandedEdges(endnode, startedgeindex, nodes) :
    \/ OsmEndNode(EdgeAt(edges, ei), node) = startnode
    \/ EdgeAt(edges, ei).attributes_.importance <= kTertiaryUnclassified

\* The expand set after the iteration that took `node` off expandset.
ExpandStep(expandset, node, endnode, startedgeindex, nodes, edges) ==
  (expandset \ {node}) \cup
    {OsmEndNode(EdgeAt(edges, ei), node) :
       ei \in ExpandedEdges(endnode, startedgeindex, nodes)}

\* The while loop of IsNoThroughEdge from its n-th iteration on. expandsets
\* is the set of values expandset may have there: *expandset.begin() of a
\* std::unordered_set may be any of its elements. The result is the set of
\* values the function may return; when the loop runs out of tries it
\* returns false. seen holds the values expandsets had in the iterations
\* before: when one comes back the loop goes round until it runs out of
\* tries and returns nothing it has not returned on the way.
RECURSIVE NoThruLoop(_, _, _, _, _, _, _, _)
NoThruLoop(expandsets, n, seen, startnode, endnode, startedgeindex, nodes, edges) ==
  IF expandsets = {} THEN {}
  ELSE IF n >= kMaxNoThruTries \/ expandsets \in seen THEN {FALSE}
  ELSE
    LET live == expandsets \ {{}}
        picks == {<<es, node>> : es \in live, node \in UNION live}
        taken == {p \in picks : p[2] \in p[1]}
        stops == {p \in taken :
                    ReturnsFalse(p[2], startnode, endnode, startedgeindex, nodes, edges)}
        next == {ExpandStep(p[1], p[2], endnode, startedgeindex, nodes, edges) :
                   p \in taken \ stops}
    IN (IF {} \in expandsets THEN {TRUE} ELSE {})
         \cup (IF stops # {} THEN {FALSE} ELSE {})
         \cup NoThruLoop(next, n + 1, seen \cup {expandsets},
                         startnode, endnode, startedgeindex, nodes, edges)

\* IsNoThroughEdge: the values it may return.
IsNoThroughEdge(startnode, endnode, startedgeindex, nodes, edges) ==
  NoThruLoop({{endnode}}, 0, {}, startnode, endnode, startedgeindex, nodes, edges)

\* DirectedEdgeBuilder(): a directed edge with nothing set.
DirectedEdgeBuilder ==
  [endnode |-> InvalidGraphId, length |-> 0, importance |-> 0,
   forward |-> FALSE, opp_index |-> 0, not_thru |-> FALSE,
   shortcut |-> FALSE, ctry_crossing |-> FALSE,
   caraccess_forward |-> FALSE, caraccess_reverse |-> FALSE,
   pedestrianaccess_forward |-> FALSE, pedestrianaccess_reverse |-> FALSE,
   link |-> FALSE, edgedataoffset |-> 0]

\* DirectedEdges with the nodes of the forward edge given to IsNoThroughEdge
\* in the order of the reverse edge.
DirectedEdgesSwapped(g, osmnodeid, edgeindex) ==
  LET edge == EdgeAt(g.edges_, edgeindex)
      w == g.ways_[edge.wayindex_ + 1]
      nodea == g.nodes_[edge.sourcenode_].graphid
      nodeb == g.nodes_[edge.targetnode_].graphid
      de == [DirectedEdgeBuilder EXCEPT
               !.length = Length(edge.latlngs_),
               !.importance = w.road_class,
               !.link = w.link,
               !.edgedataoffset = edgeindex]
  IN IF edge.sourcenode_ = osmnodeid
       THEN {[de EXCEPT
                !.forward = TRUE,
                !.caraccess_forward = w.auto_forward,
                !.caraccess_reverse = w.auto_backward,
                !.pedestrianaccess_forward = w.pedestrian,
                !.pedestrianaccess_reverse = w.pedestrian,
                !.endnode = nodeb,
                !.opp_index = GetOpposingIndex(edge.targetnode_, edge.sourcenode_,
                                               g.nodes_, g.edges_),
                !.not_thru = nt] :
               nt \in IF w.road_class <= kTertiaryUnclassified THEN {FALSE}
                      ELSE IsNoThroughEdge(edge.targetnode_, edge.sourcenode_,
                                           edgeindex, g.nodes_, g.edges_)}
     ELSE IF edge.targetnode_ = osmnodeid
       THEN {[de EXCEPT
                !.forward = FALSE,
                !.caraccess_forward = w.auto_backward,
                !.caraccess_reverse = w.auto_forward,
                !.pedestrianaccess_forward = w.pedestrian,
                !.pedestrianaccess_reverse = w.pedestrian,
                !.endnode = nodea,
                !.opp_index = GetOpposingIndex(edge.sourcenode_, edge.targetnode_,
                                               g.nodes_, g.edges_),
                !.not_thru = nt] :
               nt \in IF w.road_class <= kTertiaryUnclassified THEN {FALSE}
                      ELSE IsNoThroughEdge(edge.targetnode_, edge.sourcenode_,
                                           edgeindex, g.nodes_, g.edges_)}
     ELSE {de}

\* The body of the loop over node.edges() (lines 609-732) for one edge of
\* node osmnodeid: the directed edges it may build. AddEdgeInfo is modelled
\* by the edge index it was given, which names the edge info record.
DirectedEdges(g, osmnodeid, edgeindex) ==
  LET edge == EdgeAt(g.edges_, edgeindex)
      w == g.ways_[edge.wayindex_ + 1]
      nodea == g.nodes_[edge.sourcenode_].graphid
      nodeb == g.nodes_[edge.targetnode_].graphid
      de == [DirectedEdgeBuilder EXCEPT
               !.length = Length(edge.latlngs_),
               !.importance = w.road_class,
               !.link = w.link,
               !.edgedataoffset = edgeindex]
  IN IF edge.sourcenode_ = osmnodeid
       THEN {[de EXCEPT
                !.forward = TRUE,
                !.caraccess_forward = w.auto_forward,
                !.caraccess_reverse = w.auto_backward,
                !.pedestrianaccess_forward = w.pedestrian,
                !.pedestrianaccess_reverse = w.pedestrian,
                !.endnode = nodeb,
                !.opp_index = GetOpposingIndex(edge.targetnode_, edge.sourcenode_,
                                               g.nodes_, g.edges_),
                !.not_thru = nt] :
               nt \in IF w.road_class <= kTertiaryUnclassified THEN {FALSE}
                      ELSE IsNoThroughEdge(edge.sourcenode_, edge.targetnode_,
                                           edgeindex, g.nodes_, g.edges_)}
     ELSE IF edge.targetnode_ = osmnodeid
       THEN {[de EXCEPT
                !.forward = FALSE,
                !.caraccess_forward = w.auto_backward,
                !.caraccess_reverse = w.auto_forward,
                !.pedestrianaccess_forward = w.pedestrian,
                !.pedestrianaccess_reverse = w.pedestrian,
                !.endnode = nodea,
                !.opp_index = GetOpposingIndex(edge.sourcenode_, edge.targetnode_,
                                               g.nodes_, g.edges_),
                !.not_thru = nt] :
               nt \in IF w.road_class <= kTertiaryUnclassified THEN {FALSE}
                      ELSE IsNoThroughEdge(edge.targetnode_, edge.sourcenode_,
                                           edgeindex, g.nodes_, g.edges_)}
     ELSE {de}

\* The country, if any, that holds a coordinate (the admin record a node's
\* admin_index leads to).
CountryIso(ll) == IF ll = 0 THEN "A" ELSE IF ll = 1 THEN "" ELSE "B"

RECURSIVE MinOf(_, _)
MinOf(s, least) ==
  IF s = <<>> THEN least
  ELSE MinOf(Tail(s), IF Head(s) < least THEN Head(s) ELSE least)

\* NodeInfoBuilder with edge_index set after directededgecount was advanced.
NodeInfoBuilderLate(node, directededgecount, directededges) ==
  [latlng |-> node.latlng,
   edge_index |-> directededgecount + Len(node.edges),
   edge_count |-> Len(node.edges),
   bestrc |-> MinOf([k \in 1..Len(directededges) |-> directededges[k].importance], kOther),
   iso |-> CountryIso(node.latlng)]

\* The NodeInfoBuilder of one node (lines 596-608, 735): its first directed
\* edge is at directededgecount, the number of directed edges added so far.
NodeInfoBuilder(node, directededgecount, directededges) ==
  [latlng |-> node.latlng,
   edge_index |-> directededgecount,
   edge_count |-> Len(node.edges),
   bestrc |-> MinOf([k \in 1..Len(directededges) |-> directededges[k].importance], kOther),
   iso |-> CountryIso(node.latlng)]

\* A tile with nothing in it. signs holds the edge index of every sign.
EmptyTile == [nodes |-> <<>>, directededges |-> <<>>, signs |-> <<>>]

\* The loop over the nodes of a tile (lines 594-739); lists[k] holds the
\* directed edges built for the k-th node.
RECURSIVE AddNodes(_, _, _, _, _)
AddNodes(g, ids, lists, directededgecount, graphtile) ==
  IF ids = <<>> THEN graphtile
  ELSE
    LET node == g.nodes_[Head(ids)]
        nodebuilder == NodeInfoBuilder(node, directededgecount, Head(lists))
    IN AddNodes(g, Tail(ids), Tail(lists), directededgecount + Len(node.edges),
                [nodes |-> Append(graphtile.nodes, nodebuilder),
                 directededges |-> graphtile.directededges \o Head(lists),
                 signs |-> graphtile.signs])

\* The tiles the body of BuildTileSet (lines 588-746) may write for tileid.
BuildTile(g, tileid) ==
  LET ids == g.tilednodes_[tileid]
      choices == [k \in 1..Len(ids) |->
                    SeqProduct([j \in 1..Len(g.nodes_[ids[k]].edges) |->
                                  DirectedEdges(g, ids[k], g.nodes_[ids[k]].edges[j])])]
  IN {AddNodes(g, ids, lists, 0, EmptyTile) : lists \in SeqProduct(choices)}

-----------------------------------------------------------------------------
(* GraphBuilder::BuildLocalTiles: the split of the tiles among the workers *)

\* tile_count of worker i (0-based) that always takes the floor.
TileCountFloor(i, ntiles, nthreads) == ntiles \div nthreads

\* tile_count of worker i (0-based), lines 791-797: floor or floor + 1.
TileCount(i, ntiles, nthreads) ==
  LET floor == ntiles \div nthreads
      at_ceiling == ntiles - (nthreads * floor)
  IN IF i < at_ceiling THEN floor + 1 ELSE floor

\* Where the range of worker i begins: tile_end after the ranges before it.
RECURSIVE TileStart(_, _, _)
TileStart(i, ntiles, nthreads) ==
  IF i = 0 THEN 0
  ELSE TileStart(i - 1, ntiles, nthreads) + TileCount(i - 1, ntiles, nthreads)

\* [tile_start, tile_end) of worker i over the tiles in iteration order.
TileRange(order, i, nthreads) ==
  SubSeq(order,
         TileStart(i, Len(order), nthreads) + 1,
         TileStart(i, Len(order), nthreads) + TileCount(i, Len(order), nthreads))

-----------------------------------------------------------------------------
(* The transit builder: WriteStops, AddOSMConnection, AddToGraph *)

\* RoadClass::kServiceOther, the class of every transit edge and stop.
kServiceOther == 7
\* Largest length of a connection between a stop and an OSM node.
MaxConnLength == 1

\* A stop as WriteStops stores it (lines 139-176).
Stop(key, ll, graphid) == [key |-> key, ll |-> ll, graphid |-> graphid]

\* WriteStops on the transit file of tile tileid, which holds the stops of
\* the feed that lie in the tile: each gets the next node id after the nodes
\* the tile has (line 174).
RECURSIVE WriteStops(_, _, _, _, _)
WriteStops(stops, feed, tileid, nodecount, idx) ==
  IF feed = <<>> THEN stops
  ELSE IF GetGraphId(Head(feed).ll).tileid # tileid
    THEN WriteStops(stops, Tail(feed), tileid, nodecount, idx)
  ELSE WriteStops(Append(stops, Stop(Head(feed).key, Head(feed).ll,
                                     GraphId(tileid, nodecount + idx))),
                  Tail(feed), tileid, nodecount, idx + 1)

\* The first pass of TransitBuilder::Build (lines 1122-1127) over the transit
\* tiles in the order of the std::map: the stops and, for every tile, the
\* position of its first stop.
RECURSIVE FirstPass(_, _, _, _)
FirstPass(st, transit_tiles, feed, disk) ==
  IF transit_tiles = <<>> THEN st
  ELSE LET t == Head(transit_tiles)
       IN FirstPass([stops |-> WriteStops(st.stops, feed, t, Len(disk[t].nodes), 0),
                     tiles |-> (t :> Len(st.stops)) @@ st.tiles],
                    Tail(transit_tiles), feed, disk)

\* The stops build() visits for a tile (lines 948-950, 977-978): from the
\* tile's first stop on, while the stops lie in the tile.
RECURSIVE StopsFrom(_, _, _)
StopsFrom(stops, position, tile_id) ==
  IF position < Len(stops) /\ stops[position + 1].graphid.tileid = tile_id
    THEN <<stops[position + 1]>> \o StopsFrom(stops, position + 1, tile_id)
    ELSE <<>>

OSMConnectionEdge(osm_node, stop_node, stop_key, length) ==
  [osm_node |-> osm_node, stop_node |-> stop_node, stop_key |-> stop_key,
   length |-> length]

\* AddOSMConnection: the connection edges it may add for a stop of the tile.
\* The directed edge closest to the stop among those of the stop's way is
\* any directed edge of the tile, or none; the stop is joined to the start
\* node of that edge and, when it lies in the tile, to its end node.
AddOSMConnection(stop, tile_id, tile) ==
  {<<>>} \cup
  UNION {
    LET nodeinfo == tile.nodes[i + 1]
    IN UNION {
         LET startnode == GraphId(tile_id, i)
             endnode == tile.directededges[nodeinfo.edge_index + j + 1].endnode
         IN {<<OSMConnectionEdge(startnode, stop.graphid, stop.key, length)>>
               \o (IF endnode.tileid = tile_id
                     THEN <<OSMConnectionEdge(endnode, stop.graphid, stop.key, length2)>>
                     ELSE <<>>) :
               length \in 1..MaxConnLength, length2 \in 1..MaxConnLength}
         : j \in 0..(nodeinfo.edge_count - 1)}
    : i \in 0..(Len(tile.nodes) - 1)}

\* The connection edges of build() before the sort (lines 946-958).
RECURSIVE Connections(_, _, _)
Connections(tilestops, tile_id, tile) ==
  IF tilestops = <<>> THEN {<<>>}
  ELSE {first \o rest : first \in AddOSMConnection(Head(tilestops), tile_id, tile),
                        rest \in Connections(Tail(tilestops), tile_id, tile)}

\* OSMConnectionEdge::operator< (lines 98-104).
ConnectionLess(a, b) ==
  IF a.osm_node.tileid = b.osm_node.tileid
    THEN a.osm_node.id < b.osm_node.id
    ELSE a.osm_node.tileid < b.osm_node.tileid

\* std::sort of the connection edges: the orders it may leave.
SortedConnections(connection_edges) ==
  {s \in Arrangements(connection_edges) :
     \A k \in 1..(Len(s) - 1) : ~ConnectionLess(s[k + 1], s[k])}

\* GraphTileBuilder::AddEdgeInfo for connection k (1-based) of the sorted
\* connection edges: the edge info of a pair of nodes is stored once, so the
\* offset is that of the first connection between the same two nodes, and
\* `added` says whether this call stored it.
ConnectionEdgeInfo(connection_edges, k) ==
  LET first == CHOOSE m \in 1..k :
                 /\ connection_edges[m].osm_node = connection_edges[k].osm_node
                 /\ connection_edges[m].stop_node = connection_edges[k].stop_node
                 /\ \A n \in 1..(m - 1) :
                      \/ connection_edges[n].osm_node # connection_edges[k].osm_node
                      \/ connection_edges[n].stop_node # connection_edges[k].stop_node
  IN [edge_info_offset |-> 0 - first, added |-> first = k]

\* The directed edge from an OSM node to a stop (lines 609-627).
ConnectionToStop(connection_edges, k) ==
  [DirectedEdgeBuilder EXCEPT
     !.endnode = connection_edges[k].stop_node,
     !.length = connection_edges[k].length,
     !.importance = kServiceOther,
     !.pedestrianaccess_forward = TRUE,
     !.pedestrianaccess_reverse = TRUE,
     !.edgedataoffset = ConnectionEdgeInfo(connection_edges, k).edge_info_offset,
     !.forward = ConnectionEdgeInfo(connection_edges, k).added]

\* The directed edge from a stop to an OSM node (lines 684-705): its edge
\* info was stored when the edge from the OSM node was added.
ConnectionToOSM(connection_edges, k) ==
  [DirectedEdgeBuilder EXCEPT
     !.endnode = connection_edges[k].osm_node,
     !.length = connection_edges[k].length,
     !.importance = kServiceOther,
     !.pedestrianaccess_forward = TRUE,
     !.pedestrianaccess_reverse = TRUE,
     !.edgedataoffset = ConnectionEdgeInfo(connection_edges, k).edge_info_offset,
     !.forward = FALSE]

\* How many connection edges the while loop of lines 609-632 adds for node
\* nodeid, starting at added_edges.
RECURSIVE ConnectionRun(_, _, _)
ConnectionRun(connection_edges, added_edges, nodeid) ==
  IF added_edges < Len(connection_edges)
     /\ connection_edges[added_edges + 1].osm_node.id = nodeid
    THEN 1 + ConnectionRun(connection_edges, added_edges + 1, nodeid)
    ELSE 0

\* The sign loop state before the first node (lines 576-577, 583-584): signs
\* are the signs of the tile as read, sign_builder the signs to be written.
FirstSign(signs, currentedges) ==
  [signidx |-> 0,
   nextsignidx |-> IF Len(signs) > 0 THEN signs[1].edgeindex ELSE Len(currentedges) + 1,
   sign_builder |-> signs]

\* The while loop that leaves the signs of idx where they are.
RECURSIVE UpdateSignsUnshifted(_, _, _, _)
UpdateSignsUnshifted(signs, idx, added_edges, st) ==
  IF idx = st.nextsignidx /\ st.signidx < Len(signs)
    THEN UpdateSignsUnshifted(signs, idx, added_edges,
           [signidx |-> st.signidx + 1,
            nextsignidx |-> IF st.signidx + 1 >= Len(signs) THEN 0
                            ELSE signs[st.signidx + 2].edgeindex,
            sign_builder |-> [st.sign_builder EXCEPT ![st.signidx + 1].edgeindex = idx]])
    ELSE st

\* The while loop of lines 594-604 for the directed edge idx: every sign of
\* idx gets the index idx + added_edges.
RECURSIVE UpdateSigns(_, _, _, _)
UpdateSigns(signs, idx, added_edges, st) ==
  IF idx = st.nextsignidx /\ st.signidx < Len(signs)
    THEN UpdateSigns(signs, idx, added_edges,
           [signidx |-> st.signidx + 1,
            nextsignidx |-> IF st.signidx + 1 >= Len(signs) THEN 0
                            ELSE signs[st.signidx + 2].edgeindex,
            sign_builder |-> [st.sign_builder EXCEPT
                                ![st.signidx + 1].edgeindex = idx + added_edges]])
    ELSE st

\* The for loop of lines 589-605 from the directed edge idx on, `count` edges
\* of the node left: the sign loop state it leaves.
RECURSIVE CopyEdges(_, _, _, _, _)
CopyEdges(signs, idx, count, added_edges, st) ==
  IF count = 0 THEN st
  ELSE CopyEdges(signs, idx + 1, count - 1, added_edges,
                 UpdateSigns(signs, idx, added_edges, st))

\* The first loop of AddToGraph (lines 585-642): every node gets back its
\* directed edges, followed by the connections from it to stops, and the
\* signs of its directed edges get their new edge index.
RECURSIVE AddBack(_, _, _, _, _, _, _, _)
AddBack(tilebuilder, currentnodes, currentedges, nodeid, connection_edges, added_edges, signs, st) ==
  IF nodeid >= Len(currentnodes) THEN tilebuilder
  ELSE
    LET nb == currentnodes[nodeid + 1]
        edge_index == Len(tilebuilder.directededges)
        kept == SubSeq(currentedges, nb.edge_index + 1, nb.edge_index + nb.edge_count)
        st2 == CopyEdges(signs, nb.edge_index, nb.edge_count, added_edges, st)
        n == ConnectionRun(connection_edges, added_edges, nodeid)
        conns == [k \in 1..n |-> ConnectionToStop(connection_edges, added_edges + k)]
        directededges == tilebuilder.directededges \o kept \o conns
    IN AddBack([nodes |-> Append(tilebuilder.nodes,
                                 [nb EXCEPT !.edge_index = edge_index,
                                            !.edge_count = Len(directededges) - edge_index]),
                directededges |-> directededges,
                signs |-> st2.sign_builder],
               currentnodes, currentedges, nodeid + 1, connection_edges,
               added_edges + n, signs, st2)

\* The connections a stop gets to OSM nodes (lines 682-709), in the order of
\* the connection edges.
RECURSIVE StopConnections(_, _, _)
StopConnections(connection_edges, k, stop_key) ==
  IF k > Len(connection_edges) THEN <<>>
  ELSE (IF connection_edges[k].stop_key = stop_key
          THEN <<ConnectionToOSM(connection_edges, k)>> ELSE <<>>)
         \o StopConnections(connection_edges, k + 1, stop_key)

\* The second loop of AddToGraph (lines 651-795): a node for every stop,
\* followed by its directed edges. The feed has no stations and no schedule.
RECURSIVE AddStops(_, _, _)
AddStops(tilebuilder, tilestops, connection_edges) ==
  IF tilestops = <<>> THEN tilebuilder
  ELSE
    LET stop == Head(tilestops)
        edge_index == Len(tilebuilder.directededges)
        directededges == tilebuilder.directededges
                           \o StopConnections(connection_edges, 1, stop.key)
        node == [latlng |-> stop.ll,
                 edge_index |-> edge_index,
                 edge_count |-> Len(directededges) - edge_index,
                 bestrc |-> kServiceOther,
                 iso |-> ""]
    IN AddStops([nodes |-> Append(tilebuilder.nodes, node),
                 directededges |-> directededges,
                 signs |-> tilebuilder.signs],
                Tail(tilestops), connection_edges)

\* AddToGraph(tilebuilder, stop_edge_map, ..., connection_edges, ...)
AddToGraph(tilebuilder, tilestops, connection_edges) ==
  AddStops(AddBack([EmptyTile EXCEPT !.signs = tilebuilder.signs],
                   tilebuilder.nodes, tilebuilder.directededges,
                   0, connection_edges, 0, tilebuilder.signs,
                   FirstSign(tilebuilder.signs, tilebuilder.directededges)),
           tilestops, connection_edges)

-----------------------------------------------------------------------------
(* The graph validator *)

\* The opposing index of an edge with no opposing edge.
kMaxEdgesPerNode == 127

\* GraphReader::GetGraphTile: the reader's cache after the call. A tile not
\* yet cached is read from disk; a cached tile is returned as it was read.
GetGraphTile(cache, disk, tileid) ==
  IF tileid \in DOMAIN cache THEN cache ELSE (tileid :> disk[tileid]) @@ cache

\* The local indexes, at the end node of edge, of the directed edges the
\* loop of GetOpposingEdgeIndex accepts (lines 177-188).
OpposingMatches(startnode, edge, tile) ==
  LET nodeinfo == tile.nodes[edge.endnode.id + 1]
  IN {i \in 0..(nodeinfo.edge_count - 1) :
        LET directededge == tile.directededges[nodeinfo.edge_index + i + 1]
        IN /\ directededge.endnode = startnode
           /\ edge.shortcut = directededge.shortcut
           /\ directededge.length = edge.length}

MaxOfSet(S) == CHOOSE x \in S : \A y \in S : y <= x

\* GetOpposingEdgeIndex that does not compare lengths.
GetOpposingEdgeIndexAnyLength(startnode, edge, tile) ==
  LET nodeinfo == tile.nodes[edge.endnode.id + 1]
      m == {i \in 0..(nodeinfo.edge_count - 1) :
              LET directededge == tile.directededges[nodeinfo.edge_index + i + 1]
              IN /\ directededge.endnode = startnode
                 /\ edge.shortcut = directededge.shortcut}
  IN [opp_index |-> IF m = {} THEN kMaxEdgesPerNode ELSE MaxOfSet(m),
      dups |-> IF m = {} THEN 0 ELSE Cardinality(m) - 1,
      endnodeiso |-> nodeinfo.iso]

\* GetOpposingEdgeIndex that also wants the country-crossing flags to agree.
GetOpposingEdgeIndexSameCrossing(startnode, edge, tile) ==
  LET nodeinfo == tile.nodes[edge.endnode.id + 1]
      m == {i \in OpposingMatches(startnode, edge, tile) :
              tile.directededges[nodeinfo.edge_index + i + 1].ctry_crossing
                = edge.ctry_crossing}
  IN [opp_index |-> IF m = {} THEN kMaxEdgesPerNode ELSE MaxOfSet(m),
      dups |-> IF m = {} THEN 0 ELSE Cardinality(m) - 1,
      endnodeiso |-> nodeinfo.iso]

\* GetOpposingEdgeIndex that returns the first index when nothing matches.
GetOpposingEdgeIndexFirst(startnode, edge, tile) ==
  LET m == OpposingMatches(startnode, edge, tile)
  IN [opp_index |-> IF m = {} THEN 0 ELSE MaxOfSet(m),
      dups |-> IF m = {} THEN 0 ELSE Cardinality(m) - 1,
      endnodeiso |-> tile.nodes[edge.endnode.id + 1].iso]

\* GetOpposingEdgeIndex that counts every match as a duplicate.
GetOpposingEdgeIndexCountAll(startnode, edge, tile) ==
  LET m == OpposingMatches(startnode, edge, tile)
  IN [opp_index |-> IF m = {} THEN kMaxEdgesPerNode ELSE MaxOfSet(m),
      dups |-> Cardinality(m),
      endnodeiso |-> tile.nodes[edge.endnode.id + 1].iso]

\* GetOpposingEdgeIndex(startnode, edge, ...) given the tile of the end node:
\* the index returned (the last match, or kMaxEdgesPerNode), what it adds to
\* dupcount_ (one for every match after the first) and the end node's iso.
GetOpposingEdgeIndex(startnode, edge, tile) ==
  LET m == OpposingMatches(startnode, edge, tile)
  IN [opp_index |-> IF m = {} THEN kMaxEdgesPerNode ELSE MaxOfSet(m),
      dups |-> IF m = {} THEN 0 ELSE Cardinality(m) - 1,
      endnodeiso |-> tile.nodes[edge.endnode.id + 1].iso]

\* The crossing test with == written for !=.
IsCountryCrossingSame(begin_node_iso, end_node_iso) ==
  begin_node_iso # "" /\ end_node_iso # "" /\ begin_node_iso = end_node_iso

\* The crossing test with the check of the begin node's iso left out.
IsCountryCrossingEndOnly(begin_node_iso, end_node_iso) ==
  end_node_iso # "" /\ begin_node_iso # end_node_iso

\* The test of lines 450-451.
IsCountryCrossing(begin_node_iso, end_node_iso) ==
  begin_node_iso # "" /\ end_node_iso # "" /\ begin_node_iso # end_node_iso

\* ValidateEdge with the halving of tempLength done on the edge's length.
ValidateEdgeHalvesLength(node, directededge, begin_node_iso, endtile) ==
  LET r == GetOpposingEdgeIndex(node, directededge, endtile)
  IN [edge |-> [directededge EXCEPT
                  !.opp_index = r.opp_index,
                  !.length = @ \div 2,
                  !.ctry_crossing =
                    IF IsCountryCrossing(begin_node_iso, r.endnodeiso) THEN TRUE ELSE @],
      dups |-> r.dups]

\* Lines 446-453 for one directed edge: the edge as it is put in the list of
\* updated edges, and the duplicates counted.
ValidateEdge(node, directededge, begin_node_iso, endtile) ==
  LET r == GetOpposingEdgeIndex(node, directededge, endtile)
  IN [edge |-> [directededge EXCEPT
                  !.opp_index = r.opp_index,
                  !.ctry_crossing =
                    IF IsCountryCrossing(begin_node_iso, r.endnodeiso) THEN TRUE ELSE @],
      dups |-> r.dups]

\* The directed edges of a node, as the terminal tests read them from the
\* node's tile.
EdgesOfNode(tile, nodeinfo) ==
  [i \in 0..(nodeinfo.edge_count - 1) |-> tile.directededges[nodeinfo.edge_index + i + 1]]

\* IsPedestrianTerminal: every other edge of the start node is open to
\* pedestrians and closed to cars in both directions, and there is one.
IsPedestrianTerminal(tile, startnodeinfo, idx) ==
  LET diredge == EdgesOfNode(tile, startnodeinfo)
      is_terminal ==
        \A i \in DOMAIN diredge :
          i # idx =>
            /\ diredge[i].pedestrianaccess_reverse \/ diredge[i].pedestrianaccess_forward
            /\ ~diredge[i].caraccess_forward /\ ~diredge[i].caraccess_reverse
  IN is_terminal /\ startnodeinfo.edge_count > 1

\* IsLoopTerminal: the start node has two or more edges cars may leave by
\* and none they may enter by, or the reverse.
IsLoopTerminal(tile, startnodeinfo) ==
  LET diredge == EdgesOfNode(tile, startnodeinfo)
      outbound == Cardinality({i \in DOMAIN diredge : diredge[i].caraccess_forward})
      inbound == Cardinality({i \in DOMAIN diredge : diredge[i].caraccess_reverse})
  IN (outbound >= 2 /\ inbound = 0) \/ (inbound >= 2 /\ outbound = 0)

\* The counts of IsReversedOneway at a node: its edges cars may only leave
\* by, and those they may only enter by.
OnewayCounts(tile, nodeinfo) ==
  LET diredge == EdgesOfNode(tile, nodeinfo)
  IN [outbound |-> Cardinality({i \in DOMAIN diredge :
                                 diredge[i].caraccess_forward /\ ~diredge[i].caraccess_reverse}),
      inbound |-> Cardinality({i \in DOMAIN diredge :
                                ~diredge[i].caraccess_forward /\ diredge[i].caraccess_reverse})]

\* IsReversedOneway: cars may only enter the start node, and may only enter
\* the end node of the edge.
IsReversedOneway(tile, endtile, startnodeinfo, directededge) ==
  LET here == OnewayCounts(tile, startnodeinfo)
      there == OnewayCounts(endtile, endtile.nodes[directededge.endnode.id + 1])
  IN /\ here.outbound = 0 /\ here.inbound # 0
     /\ there.outbound = 0 /\ there.inbound # 0

\* Whether validate hands directed edge j of node `node` to
\* RouletteData::AddTask (lines 438-480): a one-way edge that is no shortcut
\* and no link, and that one of the three terminal tests accepts.
IsSuspect(node, nodeinfo, directededge, j, tile, endtile) ==
  LET validLength == ~directededge.shortcut
      fward == directededge.caraccess_forward
      bward == directededge.caraccess_reverse
      found1 == IsPedestrianTerminal(tile, nodeinfo, j)
      found2 == /\ directededge.endnode.id = node.id
                /\ directededge.endnode.tileid = node.tileid
                /\ IsLoopTerminal(tile, nodeinfo)
      found3 == /\ directededge.endnode.id # node.id
                /\ IsReversedOneway(tile, endtile, nodeinfo, directededge)
  IN /\ validLength /\ ~directededge.link
     /\ (~fward \/ ~bward) /\ (fward \/ bward)
     /\ found1 \/ found2 \/ found3

\* RouletteData::AddTask: the flagged edge enters the suspect list.
AddTask(rd, task) == rd \cup {task}

\* A default-constructed validator_stats: no duplicate counts, no task, and
\* empty maps. A map is the function from the keys it holds to their values;
\* the key of a length is the pair of a tile id or country and a road class.
validator_stats ==
  [dups |-> <<>>, roulette_data |-> {},
   tile_ids |-> {}, iso_codes |-> {},
   tile_lengths |-> <<>>, country_lengths |-> <<>>,
   tile_one_way |-> <<>>, country_one_way |-> <<>>,
   tile_areas |-> <<>>]

\* The road classes validator_stats::add goes through.
rclasses == 0..kServiceOther

\* map[key] read through operator[] of a copy: the value of a key the map
\* does not hold is zero.
ValueAt(map, key) == IF key \in DOMAIN map THEN map[key] ELSE 0

\* map[key] += value.
AddAt(map, key, value) ==
  [k \in DOMAIN map \cup {key} |-> ValueAt(map, k) + (IF k = key THEN value ELSE 0)]

\* add_tile_road, add_country_road, add_tile_one_way, add_country_one_way
\* and add_tile_area: the first two record the tile id and the country.
add_tile_road(self, tile_id, rclass, length) ==
  [self EXCEPT !.tile_ids = @ \cup {tile_id},
               !.tile_lengths = AddAt(@, <<tile_id, rclass>>, length)]

add_country_road(self, ctry_code, rclass, length) ==
  [self EXCEPT !.iso_codes = @ \cup {ctry_code},
               !.country_lengths = AddAt(@, <<ctry_code, rclass>>, length)]

add_tile_one_way(self, tile_id, rclass, length) ==
  [self EXCEPT !.tile_one_way = AddAt(@, <<tile_id, rclass>>, length)]

add_country_one_way(self, ctry_code, rclass, length) ==
  [self EXCEPT !.country_one_way = AddAt(@, <<ctry_code, rclass>>, length)]

add_tile_area(self, tile_id, area) ==
  [self EXCEPT !.tile_areas = [k \in DOMAIN @ \cup {tile_id} |->
                                 IF k = tile_id THEN area ELSE @[k]]]

\* map[key] += other[key] for every key of keys, as a loop over keys does.
AddAll(map, other, keys) ==
  [k \in DOMAIN map \cup keys |->
     ValueAt(map, k) + (IF k \in keys THEN ValueAt(other, k) ELSE 0)]

\* The loop of validator_stats::add over the tile ids of the other and the
\* road classes (lines 227-244): add_tile_area, add_tile_road and
\* add_tile_one_way for every pair of keys.
AddTiles(self, other, keys) ==
  LET ids == {key[1] : key \in keys}
  IN [self EXCEPT
        !.tile_areas = [id \in DOMAIN @ \cup ids |->
                          IF id \in ids THEN ValueAt(other.tile_areas, id) ELSE @[id]],
        !.tile_ids = @ \cup ids,
        !.tile_lengths = AddAll(@, other.tile_lengths, keys),
        !.tile_one_way = AddAll(@, other.tile_one_way, keys)]

\* The loop over the countries of the other and the road classes (lines
\* 258-273): add_country_road and add_country_one_way for every pair.
AddCountries(self, other, keys) ==
  [self EXCEPT
     !.iso_codes = @ \cup {key[1] : key \in keys},
     !.country_lengths = AddAll(@, other.country_lengths, keys),
     !.country_one_way = AddAll(@, other.country_one_way, keys)]

\* validator_stats::add: for the tile ids and the countries the other holds
\* in get_ids() and get_isos(), the area is copied and the lengths of every
\* road class are added; the duplicate counts of the other are appended;
\* nothing is taken from its roulette_data.
add(self, other) ==
  LET s1 == AddTiles(self, other, other.tile_ids \X rclasses)
      s2 == AddCountries(s1, other, other.iso_codes \X rclasses)
  IN [s2 EXCEPT !.dups = @ \o other.dups]

\* Lines 438-444 and 455-503 for one directed edge: the statistics of the
\* worker after the edge. tempLength is kept in quarters of the length unit,
\* so that the division by 2 or by 4 is exact.
CountEdge(vStats, tileid, begin_node_iso, directededge) ==
  LET validLength == ~directededge.shortcut
      rclass == directededge.importance
      tempLength == IF tileid = directededge.endnode.tileid
                      THEN 2 * directededge.length ELSE directededge.length
      fward == directededge.caraccess_forward
      bward == directededge.caraccess_reverse
      s1 == IF (~fward \/ ~bward) /\ (fward \/ bward)
              THEN add_country_one_way(add_tile_one_way(vStats, tileid, rclass, tempLength),
                                       begin_node_iso, rclass, tempLength)
              ELSE vStats
  IN IF validLength /\ ~directededge.link
       THEN add_tile_road(add_country_road(s1, begin_node_iso, rclass, tempLength),
                          tileid, rclass, tempLength)
       ELSE vStats

\* The area of a tile in square km (lines 509-513), which depends on the
\* tile's bounds alone and is never zero.
TileArea(tileid) == tileid + 1

\* A validate worker that holds no tile.
IdleValidator(cache, pc, vStats) ==
  [pc |-> pc, tile_id |-> -1, i |-> 0, j |-> 0,
   tilebuilder |-> EmptyTile, begin_node_iso |-> "",
   nodes |-> <<>>, directededges |-> <<>>, dupcount |-> 0,
   cache |-> cache, dups |-> vStats.dups, roulette_data |-> vStats.roulette_data,
   tile_ids |-> vStats.tile_ids, iso_codes |-> vStats.iso_codes,
   tile_lengths |-> vStats.tile_lengths, country_lengths |-> vStats.country_lengths,
   tile_one_way |-> vStats.tile_one_way, country_one_way |-> vStats.country_one_way,
   tile_areas |-> vStats.tile_areas]

\* TransitBuilder before Build: the feed, and no stop read from it yet.
NoTransit(feed) == [feed |-> feed, stops |-> <<>>, tiles |-> <<>>, threads |-> <<>>]

-----------------------------------------------------------------------------
(* The input file of the parse specification *)

\* The node coordinates of the PBF file read by SpecParse.
ParseLL(osmid) == osmid

\* Largest speed a classifier output names, and the number of ways SpecSpeed
\* reads.
MaxSpeed == 2
MaxSpeedWays == 2

\* The classifier output of the ways read by SpecParse.
ParseTags ==
  [road_class |-> kResidential, auto_forward |-> TRUE, auto_backward |-> TRUE,
   pedestrian |-> TRUE, link |-> FALSE, speed |-> 1]

RECURSIVE TotalRefs(_)
TotalRefs(ways) ==
  IF ways = <<>> THEN 0 ELSE Len(Head(ways).refs) + TotalRefs(Tail(ways))

RefLists(maxlen) == UNION {[1..n -> NodeIds] : n \in 1..maxlen}

-----------------------------------------------------------------------------
(* SpecParse: GraphBuilder::Build up to ConstructEdges, single-threaded *)

InitParse ==
  /\ phase = "ways"
  /\ gb = NewGraphBuilder
  /\ cursor = 1
  /\ conc = 1
  /\ lock = NoMutex
  /\ tiles = <<>>
  /\ threads = <<>>
  /\ transit = NoTransit(<<>>)
  /\ tilequeue = <<>>
  /\ vthreads = <<>>
  /\ log = <<>>
  /\ stats = validator_stats

\* read_osm_pbf(..., WAYS) hands one more way to way_callback
WayPass ==
  /\ phase = "ways"
  /\ \E refs \in RefLists(MaxTotalRefs - TotalRefs(gb.ways_)), accepted \in BOOLEAN :
       gb' = way_callback(gb, refs, accepted, ParseTags)
  /\ UNCHANGED <<phase, cursor, tilevars>>

\* the way pass ends (the file has no more ways)
EndWayPass ==
  /\ phase = "ways"
  /\ phase' = "nodes"
  /\ UNCHANGED <<gb, cursor, tilevars>>

\* The first id whose word lies past the end of shape_'s words.
PastShape == kWordBits * ((MaxOsmId \div kWordBits) + 1)

\* The node ids of the file in the order read: the ids the ways may
\* reference, then one id past the table that no way references.
FileNode(k) == IF k <= MaxOsmId THEN k ELSE PastShape

\* read_osm_pbf(..., NODES) hands the next node to node_callback
NodePass ==
  /\ phase = "nodes"
  /\ cursor <= MaxOsmId + 1
  /\ \E accepted \in BOOLEAN :
       gb' \in node_callbackCall(gb, FileNode(cursor), ParseLL(FileNode(cursor)), accepted)
  /\ cursor' = cursor + 1
  /\ UNCHANGED <<phase, tilevars>>

\* the node pass ends and Build calls ConstructEdges, which returns; log
\* keeps the ids of the nodes the node pass stored
DoConstructEdges ==
  /\ phase = "nodes"
  /\ cursor > MaxOsmId + 1
  /\ gb' = ConstructEdges(gb)
  /\ phase' = "constructed"
  /\ log' = DOMAIN gb.nodes_
  /\ UNCHANGED <<cursor, conc, lock, tiles, threads, transit, tilequeue, vthreads, stats>>

NextParse == WayPass \/ EndWayPass \/ NodePass \/ DoConstructEdges

SpecParse == InitParse /\ [][NextParse]_vars

-----------------------------------------------------------------------------
(* SpecTable: a NodeIdTable under calls of set and IsUsed *)

\* The declared maximum of the table: its last word is the second.
TableMax == 70

\* The ids the calls are made with: around the ends of the words, the
\* declared maximum and past it.
TableIds ==
  {0, 1, kWordBits - 1, kWordBits, TableMax, TableMax + 1,
   2 * kWordBits - 1, 2 * kWordBits, 2 * kWordBits + 1}

\* gb holds the table and the ids set so far; log holds the last call.
InitTable ==
  /\ phase = "table"
  /\ gb = [table |-> NodeIdTable(TableMax), inserted |-> {}]
  /\ log = [op |-> "none", id |-> 0, threw |-> FALSE, used |-> FALSE,
            before |-> NodeIdTable(TableMax)]
  /\ cursor = 0
  /\ conc = 1
  /\ lock = NoMutex
  /\ tiles = <<>>
  /\ threads = <<>>
  /\ transit = NoTransit(<<>>)
  /\ tilequeue = <<>>
  /\ vthreads = <<>>
  /\ stats = validator_stats

\* a call of set(id)
TableSet ==
  /\ phase = "table"
  /\ \E id \in TableIds :
       LET r == setCall(gb.table, id)
       IN /\ gb' = [table |-> r.table,
                    inserted |-> IF r.threw THEN gb.inserted ELSE gb.inserted \cup {id}]
          /\ log' = [op |-> "set", id |-> id, threw |-> r.threw, used |-> FALSE,
                     before |-> gb.table]
  /\ UNCHANGED <<phase, cursor, conc, lock, tiles, threads, transit, tilequeue, vthreads, stats>>

\* a call of IsUsed(id)
TableIsUsed ==
  /\ phase = "table"
  /\ \E id \in TableIds :
       \E used \in IsUsedCall(gb.table, id) :
         log' = [op |-> "IsUsed", id |-> id, threw |-> FALSE, used |-> used,
                 before |-> gb.table]
  /\ UNCHANGED <<phase, gb, cursor, conc, lock, tiles, threads, transit, tilequeue, vthreads,
                 stats>>

NextTable == TableSet \/ TableIsUsed

SpecTable == InitTable /\ [][NextTable]_vars

-----------------------------------------------------------------------------
(* The input files of the tile specification *)

\* Total number of refs over the ways of an input file.
MaxTileRefs == 4
\* The node coordinates are (osmid - 1 + off) modulo MaxCoord + 1.
MaxCoord == 3
MaxOffset == 0
\* Largest number of worker threads (hardware_concurrency, "concurrency").
MaxWorkers == 2

\* What the classifier may say of a way.
TagChoices ==
  {[road_class |-> kResidential, auto_forward |-> TRUE, auto_backward |-> TRUE,
    pedestrian |-> TRUE, link |-> FALSE, speed |-> 1],
   [road_class |-> kTertiaryUnclassified, auto_forward |-> TRUE, auto_backward |-> FALSE,
    pedestrian |-> TRUE, link |-> FALSE, speed |-> 1]}

\* Largest number of stops in the transit feed.
MaxStops == 1

\* The transit feeds: every stop has a key and a place.
Feeds ==
  UNION {{[k \in 1..n |-> [key |-> k, ll |-> lls[k]]] : lls \in [1..n -> 0..MaxCoord]} :
           n \in 0..MaxStops}

\* The ways of an input file: each has two refs or more.
RECURSIVE WayLists(_)
WayLists(budget) ==
  {<<>>} \cup
  UNION {{<<[refs |-> r, tags |-> t]>> \o rest : rest \in WayLists(budget - Len(r))} :
           r \in {x \in RefLists(budget) : Len(x) >= 2}, t \in TagChoices}

TileLL(osmid, off) == (osmid - 1 + off) % (MaxCoord + 1)

\* read_osm_pbf(..., WAYS): way_callback on every way of the file.
RECURSIVE ReadWays(_, _)
ReadWays(g, ways) ==
  IF ways = <<>> THEN g
  ELSE ReadWays(way_callback(g, Head(ways).refs, TRUE, Head(ways).tags), Tail(ways))

\* read_osm_pbf(..., NODES): node_callback on every node of the file.
RECURSIVE ReadNodes(_, _, _)
ReadNodes(g, osmid, off) ==
  IF osmid > MaxOsmId THEN g
  ELSE ReadNodes(node_callback(g, osmid, TileLL(osmid, off), TRUE), osmid + 1, off)

\* GraphBuilder::Build up to TileNodes: the builders it may leave.
Built(ways, off) ==
  LET constructed == ConstructEdges(ReadNodes(ReadWays(NewGraphBuilder, ways), 1, off))
  IN UNION {{TileNodes(sorted, order) : order \in IterationOrders(DOMAIN sorted.nodes_)} :
              sorted \in SortEdgesFromNodes(constructed)}

-----------------------------------------------------------------------------
(* SpecAccess: DirectedEdgeBuilder's constructor on the access flags of a way *)

\* The modes with a forward and a backward flag in OSMWay.
DirectionalModes == {"auto", "truck", "bus", "bike", "emergency"}

\* The access flags of an OSMWay: for each directional mode whether the way
\* may be travelled forward and backward, and whether pedestrians may use it.
WayAccess ==
  [forward : SUBSET DirectionalModes, backward : SUBSET DirectionalModes,
   pedestrian : BOOLEAN]

\* The constructor with the access of every orientation taken from the
\* way's flags unswapped.
AccessMasksUnswapped(way, forward) ==
  [forward |-> forward,
   forwardaccess |-> way.forward \cup (IF way.pedestrian THEN {"pedestrian"} ELSE {}),
   reverseaccess |-> way.backward \cup (IF way.pedestrian THEN {"pedestrian"} ELSE {})]

\* DirectedEdgeBuilder::DirectedEdgeBuilder, lines 60-111: the forward flag
\* and the two access masks, each the set of the modes whose bit is set.
AccessMasks(way, forward) ==
  [forward |-> forward,
   forwardaccess |->
     {m \in DirectionalModes :
        (m \in way.forward /\ forward) \/ (m \in way.backward /\ ~forward)}
       \cup (IF way.pedestrian THEN {"pedestrian"} ELSE {}),
   reverseaccess |->
     {m \in DirectionalModes :
        (m \in way.forward /\ ~forward) \/ (m \in way.backward /\ forward)}
       \cup (IF way.pedestrian THEN {"pedestrian"} ELSE {})]

\* gb holds the way, log the directed edge last constructed from it.
InitAccess ==
  /\ phase = "access"
  /\ gb \in WayAccess
  /\ log = [made |-> FALSE, edge |-> AccessMasks(gb, TRUE)]
  /\ cursor = 0
  /\ conc = 1
  /\ lock = NoMutex
  /\ tiles = <<>>
  /\ threads = <<>>
  /\ transit = NoTransit(<<>>)
  /\ tilequeue = <<>>
  /\ vthreads = <<>>
  /\ stats = validator_stats

\* a directed edge of the way is constructed, forward or reverse
Construct ==
  /\ phase = "access"
  /\ \E forward \in BOOLEAN :
       log' = [made |-> TRUE, edge |-> AccessMasks(gb, forward)]
  /\ UNCHANGED <<phase, gb, cursor, conc, lock, tiles, threads, transit, tilequeue, vthreads,
                 stats>>

NextAccess == Construct

SpecAccess == InitAccess /\ [][NextAccess]_vars

-----------------------------------------------------------------------------
(* SpecSort: GraphBuilder::Build from ConstructEdges to TileNodes *)

\* The state in which ConstructEdges returns.
InitSort ==
  /\ phase = "constructed"
  /\ \E ways \in WayLists(MaxTileRefs), off \in 0..MaxOffset :
       /\ ways # <<>>
       /\ gb = ConstructEdges(ReadNodes(ReadWays(NewGraphBuilder, ways), 1, off))
  /\ cursor = MaxOsmId + 1
  /\ conc = 1
  /\ lock = NoMutex
  /\ tiles = <<>>
  /\ threads = <<>>
  /\ transit = NoTransit(<<>>)
  /\ tilequeue = <<>>
  /\ vthreads = <<>>
  /\ log = <<>>
  /\ stats = validator_stats

\* Build calls SortEdgesFromNodes
DoSortEdgesFromNodes ==
  /\ phase = "constructed"
  /\ gb' \in SortEdgesFromNodes(gb)
  /\ phase' = "sorted"
  /\ UNCHANGED <<cursor, tilevars>>

\* Build calls TileNodes
DoTileNodes ==
  /\ phase = "sorted"
  /\ \E order \in IterationOrders(DOMAIN gb.nodes_) : gb' = TileNodes(gb, order)
  /\ phase' = "tiled"
  /\ UNCHANGED <<cursor, tilevars>>

NextSort == DoSortEdgesFromNodes \/ DoTileNodes

SpecSort == InitSort /\ [][NextSort]_vars

-----------------------------------------------------------------------------
(* Spec: BuildLocalTiles with its workers, then GraphValidator::Validate *)

TileIds == DOMAIN gb.tilednodes_

\* What happened to each tile: how many times a build worker wrote it, a
\* transit worker rewrote it, a validate worker took it off the queue and a
\* validate worker updated it, and the tile as it was when Validate started.
NoLog(ids) ==
  [t \in ids |-> [built |-> 0, transit |-> 0, popped |-> 0, updated |-> 0,
                  before |-> EmptyTile]]

Init ==
  /\ phase = "tiled"
  /\ transit \in {NoTransit(feed) : feed \in Feeds}
  /\ \E ways \in WayLists(MaxTileRefs - 2 * Len(transit.feed)), off \in 0..MaxOffset :
       /\ ways # <<>>
       /\ gb \in Built(ways, off)
  /\ cursor = MaxOsmId + 1
  /\ conc \in 1..MaxWorkers
  /\ lock = NoMutex
  /\ tiles = <<>>
  /\ threads = <<>>
  /\ tilequeue = <<>>
  /\ vthreads = <<>>
  /\ log = NoLog(DOMAIN gb.tilednodes_)
  /\ stats = validator_stats

\* BuildLocalTiles divides tilednodes_, taken in the order the unordered_map
\* iterates, among the workers and starts them
BuildLocalTiles ==
  /\ phase = "tiled"
  /\ \E order \in Arrangements(Ascending(TileIds)) :
       threads' = [i \in 0..(conc - 1) |->
                     [range |-> TileRange(order, i, conc), at |-> 0, done |-> FALSE,
                      result |-> "none"]]
  /\ phase' = "building"
  /\ UNCHANGED <<gb, cursor, conc, lock, tiles, transit, tilequeue, vthreads, log, stats>>

\* worker i of BuildTileSet builds and stores the next tile of its range
BuildTileSet(i) ==
  /\ phase = "building"
  /\ ~threads[i].done
  /\ threads[i].at < Len(threads[i].range)
  /\ LET tileid == threads[i].range[threads[i].at + 1]
     IN /\ \E graphtile \in BuildTile(gb, tileid) :
             tiles' = [t \in DOMAIN tiles \cup {tileid} |->
                         IF t = tileid THEN graphtile ELSE tiles[t]]
        /\ log' = [log EXCEPT ![tileid].built = @ + 1]
  /\ threads' = [threads EXCEPT ![i].at = @ + 1]
  /\ UNCHANGED <<phase, gb, cursor, conc, lock, transit, tilequeue, vthreads, stats>>

\* worker i of BuildTileSet reaches the end of its range: result.set_value
BuildTileSetDone(i) ==
  /\ phase = "building"
  /\ ~threads[i].done
  /\ threads[i].at = Len(threads[i].range)
  /\ threads' = [threads EXCEPT ![i].done = TRUE, ![i].result = "value"]
  /\ UNCHANGED <<phase, gb, cursor, conc, lock, tiles, transit, tilequeue, vthreads, log, stats>>

\* worker i of BuildTileSet catches an exception thrown while it builds or
\* stores the next tile of its range (lines 748-753): result.set_exception,
\* and the worker returns without the rest of its range
BuildTileSetThrows(i) ==
  /\ phase = "building"
  /\ ~threads[i].done
  /\ threads[i].at < Len(threads[i].range)
  /\ threads' = [threads EXCEPT ![i].done = TRUE, ![i].result = "exception"]
  /\ UNCHANGED <<phase, gb, cursor, conc, lock, tiles, transit, tilequeue, vthreads, log, stats>>

\* BuildLocalTiles has joined every worker and has taken every result: an
\* exception a result holds is caught and dropped (lines 815-824), and
\* BuildLocalTiles returns
JoinBuild ==
  /\ phase = "building"
  /\ \A i \in DOMAIN threads : threads[i].done
  /\ phase' = "built"
  /\ threads' = [i \in DOMAIN threads |->
                   [range |-> <<>>, at |-> 0, done |-> TRUE,
                    result |-> threads[i].result]]
  /\ UNCHANGED <<gb, cursor, conc, lock, tiles, transit, tilequeue, vthreads, log, stats>>

\* The tiles that have a transit file with a stop and exist (lines 1111-1121).
TransitTiles(feed, disk) ==
  {t \in DOMAIN disk : \E k \in 1..Len(feed) : GetGraphId(feed[k].ll).tileid = t}

\* TransitBuilder::Build finds no transit tile and adds nothing
TransitBail ==
  /\ phase = "built"
  /\ TransitTiles(transit.feed, tiles) = {}
  /\ phase' = "enhanced"
  /\ UNCHANGED <<gb, cursor, conc, lock, tiles, threads, transit, tilequeue, vthreads, log, stats>>

\* TransitBuilder::Build reads the stops, divides the transit tiles, taken in
\* the order of the std::map, among the workers and starts them
TransitBuild ==
  /\ phase = "built"
  /\ TransitTiles(transit.feed, tiles) # {}
  /\ LET transit_tiles == Ascending(TransitTiles(transit.feed, tiles))
         st == FirstPass([stops |-> <<>>, tiles |-> <<>>], transit_tiles,
                         transit.feed, tiles)
     IN transit' = [transit EXCEPT
                      !.stops = st.stops,
                      !.tiles = st.tiles,
                      !.threads = [i \in 0..(conc - 1) |->
                                     [range |-> TileRange(transit_tiles, i, conc),
                                      at |-> 0, done |-> FALSE]]]
  /\ phase' = "transit"
  /\ UNCHANGED <<gb, cursor, conc, lock, tiles, threads, tilequeue, vthreads, log, stats>>

\* worker i of build adds the stops of the next tile of its range to the
\* tile and stores it (lines 925-1066)
AddTransit(i) ==
  /\ phase = "transit"
  /\ ~transit.threads[i].done
  /\ transit.threads[i].at < Len(transit.threads[i].range)
  /\ LET tile_id == transit.threads[i].range[transit.threads[i].at + 1]
         tilestops == StopsFrom(transit.stops, transit.tiles[tile_id], tile_id)
     IN /\ \E unsorted \in Connections(tilestops, tile_id, tiles[tile_id]) :
             \E connection_edges \in SortedConnections(unsorted) :
               tiles' = [tiles EXCEPT ![tile_id] =
                           AddToGraph(@, tilestops, connection_edges)]
        /\ log' = [log EXCEPT ![tile_id].transit = @ + 1]
  /\ transit' = [transit EXCEPT !.threads[i].at = @ + 1]
  /\ UNCHANGED <<phase, gb, cursor, conc, lock, threads, tilequeue, vthreads, stats>>

\* worker i of build reaches the end of its range: results.set_value
AddTransitDone(i) ==
  /\ phase = "transit"
  /\ ~transit.threads[i].done
  /\ transit.threads[i].at = Len(transit.threads[i].range)
  /\ transit' = [transit EXCEPT !.threads[i].done = TRUE]
  /\ UNCHANGED <<phase, gb, cursor, conc, lock, tiles, threads, tilequeue, vthreads, log, stats>>

\* worker i of build throws while it rewrites the next tile of its range:
\* build catches nothing, so the exception leaves the thread's function and
\* std::terminate ends the process
AddTransitThrows(i) ==
  /\ phase = "transit"
  /\ ~transit.threads[i].done
  /\ transit.threads[i].at < Len(transit.threads[i].range)
  /\ phase' = "terminated"
  /\ UNCHANGED <<gb, cursor, conc, lock, tiles, threads, transit, tilequeue, vthreads, log, stats>>

\* TransitBuilder::Build has joined every worker
JoinTransit ==
  /\ phase = "transit"
  /\ \A i \in DOMAIN transit.threads : transit.threads[i].done
  /\ phase' = "enhanced"
  /\ transit' = [transit EXCEPT !.threads = <<>>]
  /\ UNCHANGED <<gb, cursor, conc, lock, tiles, threads, tilequeue, vthreads, log, stats>>

\* Largest index of an edge the hierarchy builder may make a shortcut.
MaxShortcutEdge == 0

\* The tile with the directed edges of the edges `offsets` made shortcuts:
\* both of an edge, or its forward directed edges alone.
WithShortcut(tile, offsets, forwardonly) ==
  [tile EXCEPT !.directededges =
     [k \in 1..Len(tile.directededges) |->
        IF /\ tile.directededges[k].edgedataoffset \in offsets
           /\ forwardonly => tile.directededges[k].forward
          THEN [tile.directededges[k] EXCEPT !.shortcut = TRUE]
          ELSE tile.directededges[k]]]

\* the hierarchy builder runs: it may leave the two directed edges of one
\* edge as shortcuts beside the regular edges of their nodes, or a shortcut
\* that has no shortcut back (the case GetOpposingEdgeIndex reports as
\* "No Shortcut edges found from end node")
HierarchyBuilder ==
  /\ phase = "enhanced"
  /\ \E offsets \in {{}} \cup {{e} : e \in 0..MaxShortcutEdge}, forwardonly \in BOOLEAN :
       /\ \A e \in offsets : e < Len(gb.edges_)
       /\ tiles' = [t \in DOMAIN tiles |-> WithShortcut(tiles[t], offsets, forwardonly)]
  /\ phase' = "hierarchy"
  /\ UNCHANGED <<gb, cursor, conc, lock, threads, transit, tilequeue, vthreads, log, stats>>

\* Validate queues the tiles that exist, shuffled, and starts the workers
Validate ==
  /\ phase = "hierarchy"
  /\ tilequeue' \in Arrangements(Ascending(DOMAIN tiles))
  /\ vthreads' = [i \in 0..(conc - 1) |-> IdleValidator(<<>>, "pop", validator_stats)]
  /\ phase' = "validating"
  /\ log' = [t \in DOMAIN log |->
               IF t \in DOMAIN tiles THEN [log[t] EXCEPT !.before = tiles[t]] ELSE log[t]]
  /\ UNCHANGED <<gb, cursor, conc, lock, tiles, threads, transit, stats>>

\* The number of critical sections a worker passes in its next step. Taking
\* a tile off the queue or finding the queue empty is one (lines 379-387);
\* writing the tile and clearing the cache are two (520-522, 525-528); an
\* edge has the one of GetOpposingEdgeIndex (160-162), before it the one at
\* the head of the node loop if the edge is the node's first (417-419), and
\* for a one-way edge those of the terminal tests (235-237, 470-472, 273-275,
\* 309-311, 329-331).
CriticalSections(t, disk) ==
  IF t.pc = "pop" THEN 1
  ELSE IF t.pc = "update" THEN 2
  ELSE
    LET nodeinfo == t.tilebuilder.nodes[t.i + 1]
        head == IF t.j = 0 THEN 1 ELSE 0
    IN IF nodeinfo.edge_count = 0 THEN head
       ELSE
         LET directededge == t.tilebuilder.directededges[nodeinfo.edge_index + t.j + 1]
             fward == directededge.caraccess_forward
             bward == directededge.caraccess_reverse
             oneway == /\ ~directededge.shortcut /\ ~directededge.link
                       /\ (~fward \/ ~bward) /\ (fward \/ bward)
             found == IsPedestrianTerminal(disk[t.tile_id], nodeinfo, t.j)
             loop == directededge.endnode.id = t.i
             here == OnewayCounts(disk[t.tile_id], nodeinfo)
         IN head + 1 +
              (IF ~oneway THEN 0
               ELSE 1 +
                 (IF found THEN 0
                  ELSE IF loop
                    THEN 1 + (IF directededge.endnode.tileid = t.tile_id THEN 1 ELSE 0)
                  ELSE 1 + (IF here.outbound = 0 /\ here.inbound # 0 THEN 1 ELSE 0)))

\* lock.unlock() by worker i whose step has `sections` critical sections and
\* never lets go of the mutex.
unlockHeld(l, i, sections) ==
  IF ~l.modelled THEN l
  ELSE [l EXCEPT !.inside = @ \ {i},
                 !.section[i] = IF @ + 1 >= sections THEN 0 ELSE @ + 1]

\* lock.unlock() by worker i, whose step has `sections` critical sections:
\* the mutex is free, and the worker is past one more section of its step, or
\* past the step.
unlock(l, i, sections) ==
  IF ~l.modelled THEN l
  ELSE [l EXCEPT !.holder = {},
                 !.inside = @ \ {i},
                 !.section[i] = IF @ + 1 >= sections THEN 0 ELSE @ + 1]

\* Worker i is in the last critical section of its step.
InLastSection(i) ==
  lock.modelled =>
    /\ i \in lock.inside
    /\ lock.section[i] + 1 = CriticalSections(vthreads[i], tiles)

\* lock.lock() returns in worker i: the mutex was free
Acquire(i) ==
  /\ phase = "validating"
  /\ lock.modelled
  /\ vthreads[i].pc # "done"
  /\ i \notin lock.inside
  /\ lock.holder = {}
  /\ lock' = [lock EXCEPT !.holder = {i}, !.inside = @ \cup {i}]
  /\ UNCHANGED <<phase, gb, cursor, conc, tiles, threads, transit, tilequeue, vthreads, log,
                 stats>>

\* worker i leaves a critical section that is not the last of its step
Release(i) ==
  /\ phase = "validating"
  /\ lock.modelled
  /\ i \in lock.inside
  /\ lock.section[i] + 1 < CriticalSections(vthreads[i], tiles)
  /\ lock' = unlock(lock, i, CriticalSections(vthreads[i], tiles))
  /\ UNCHANGED <<phase, gb, cursor, conc, tiles, threads, transit, tilequeue, vthreads, log,
                 stats>>

\* worker i of validate, under the lock, takes the next tile off the queue,
\* then opens it (GraphTileBuilder reads the tile's file)
PopTile(i) ==
  /\ phase = "validating"
  /\ vthreads[i].pc = "pop"
  /\ InLastSection(i)
  /\ lock' = unlock(lock, i, CriticalSections(vthreads[i], tiles))
  /\ tilequeue # <<>>
  /\ LET tile_id == Head(tilequeue)
         tilebuilder == tiles[tile_id]
     IN /\ vthreads' = [vthreads EXCEPT ![i] =
                          [@ EXCEPT !.pc = IF Len(tilebuilder.nodes) = 0
                                             THEN "update" ELSE "edge",
                                    !.tile_id = tile_id,
                                    !.tilebuilder = tilebuilder]]
        /\ log' = [log EXCEPT ![tile_id].popped = @ + 1]
  /\ tilequeue' = Tail(tilequeue)
  /\ UNCHANGED <<phase, gb, cursor, conc, tiles, threads, transit, stats>>

\* worker i of validate finds the queue empty and fills its promise
ValidateDone(i) ==
  /\ phase = "validating"
  /\ vthreads[i].pc = "pop"
  /\ InLastSection(i)
  /\ lock' = unlock(lock, i, CriticalSections(vthreads[i], tiles))
  /\ tilequeue = <<>>
  /\ vthreads' = [vthreads EXCEPT ![i] = IdleValidator(<<>>, "done", @)]
  /\ UNCHANGED <<phase, gb, cursor, conc, tiles, threads, transit, tilequeue, log, stats>>

\* The worker's position after the directed edges of node t.i are done.
NextNode(t) ==
  [t EXCEPT !.nodes = Append(@, t.tilebuilder.nodes[t.i + 1]),
            !.i = @ + 1,
            !.j = 0,
            !.pc = IF t.i + 1 < Len(t.tilebuilder.nodes) THEN "edge" ELSE "update"]

\* The worker after the head of the loop over the nodes (lines 414-420): it
\* has read the node's tile through its GraphReader and taken the country of
\* the node.
BeginNode(t, disk) ==
  LET cache == GetGraphTile(t.cache, disk, t.tile_id)
  IN [t EXCEPT !.cache = cache,
               !.begin_node_iso = cache[t.tile_id].nodes[t.i + 1].iso]

\* worker i updates directed edge j of node i of its tile (lines 433-453),
\* after the head of the node loop if the edge is the node's first
UpdateEdge(i) ==
  /\ phase = "validating"
  /\ vthreads[i].pc = "edge"
  /\ InLastSection(i)
  /\ lock' = unlock(lock, i, CriticalSections(vthreads[i], tiles))
  /\ \E t \in {IF vthreads[i].j = 0 THEN BeginNode(vthreads[i], tiles) ELSE vthreads[i]} :
       LET nodeinfo == t.tilebuilder.nodes[t.i + 1]
           node == GraphId(t.tile_id, t.i)
       IN IF nodeinfo.edge_count = 0
            THEN vthreads' = [vthreads EXCEPT ![i] = NextNode(t)]
            ELSE
              \E directededge \in {t.tilebuilder.directededges[nodeinfo.edge_index + t.j + 1]} :
              \E cache \in {GetGraphTile(t.cache, tiles, directededge.endnode.tileid)} :
              \E r \in {ValidateEdge(node, directededge, t.begin_node_iso,
                                     cache[directededge.endnode.tileid])} :
              \E suspect \in {IsSuspect(node, nodeinfo, r.edge, t.j, cache[t.tile_id],
                                        cache[directededge.endnode.tileid])} :
              \E t1 \in {[CountEdge(t, t.tile_id, t.begin_node_iso, r.edge) EXCEPT
                             !.cache = cache,
                             !.directededges = Append(@, r.edge),
                             !.dupcount = @ + r.dups,
                             !.roulette_data =
                               IF suspect THEN AddTask(@, <<t.tile_id, t.i, t.j>>) ELSE @,
                             !.j = @ + 1]} :
                vthreads' = [vthreads EXCEPT ![i] =
                               IF t.j + 1 < nodeinfo.edge_count THEN t1 ELSE NextNode(t1)]
  /\ UNCHANGED <<phase, gb, cursor, conc, tiles, threads, transit, tilequeue, log, stats>>

\* worker i records the area of its tile, under the lock writes the tile
\* (tilebuilder.Update) and then clears its reader's cache if that is
\* over-committed (lines 509-531)
UpdateTile(i) ==
  /\ phase = "validating"
  /\ vthreads[i].pc = "update"
  /\ InLastSection(i)
  /\ lock' = unlock(lock, i, CriticalSections(vthreads[i], tiles))
  /\ LET t == vthreads[i]
     IN /\ tiles' = [tiles EXCEPT ![t.tile_id] =
                       [t.tilebuilder EXCEPT !.nodes = t.nodes,
                                             !.directededges = t.directededges]]
        /\ \E overcommitted \in BOOLEAN :
             vthreads' = [vthreads EXCEPT ![i] =
                            IdleValidator(IF overcommitted THEN <<>> ELSE t.cache,
                                          "pop",
                                          [add_tile_area(t, t.tile_id, TileArea(t.tile_id))
                                             EXCEPT !.dups = Append(@, t.dupcount)])]
        /\ log' = [log EXCEPT ![t.tile_id].updated = @ + 1]
  /\ UNCHANGED <<phase, gb, cursor, conc, threads, transit, tilequeue, stats>>

\* The statistics after the results of workers i, i + 1, ... were added to
\* stats in turn (lines 592-596).
RECURSIVE MergeFrom(_, _, _)
MergeFrom(merged, results, i) ==
  IF i \notin DOMAIN results THEN merged
  ELSE MergeFrom(add(merged, results[i]), results, i + 1)

\* Validate has joined every worker and merged their results
JoinValidate ==
  /\ phase = "validating"
  /\ \A i \in DOMAIN vthreads : vthreads[i].pc = "done"
  /\ phase' = "validated"
  /\ stats' = MergeFrom(validator_stats, vthreads, 0)
  /\ UNCHANGED <<gb, cursor, conc, lock, tiles, threads, transit, tilequeue, vthreads, log>>

Workers == 0..(MaxWorkers - 1)

Next ==
  \/ BuildLocalTiles
  \/ \E i \in Workers : i < conc /\ BuildTileSet(i)
  \/ \E i \in Workers : i < conc /\ BuildTileSetDone(i)
  \/ JoinBuild
  \/ TransitBail
  \/ TransitBuild
  \/ \E i \in Workers : i < conc /\ AddTransit(i)
  \/ \E i \in Workers : i < conc /\ AddTransitDone(i)
  \/ JoinTransit
  \/ HierarchyBuilder
  \/ Validate
  \/ \E i \in Workers : i < conc /\ PopTile(i)
  \/ \E i \in Workers : i < conc /\ ValidateDone(i)
  \/ \E i \in Workers : i < conc /\ UpdateEdge(i)
  \/ \E i \in Workers : i < conc /\ UpdateTile(i)
  \/ JoinValidate

Spec == Init /\ [][Next]_vars

-----------------------------------------------------------------------------
(* SpecThrow: the build and transit phases when building a tile may throw *)

NextThrow ==
  \/ BuildLocalTiles
  \/ \E i \in Workers : i < conc /\ BuildTileSet(i)
  \/ \E i \in Workers : i < conc /\ BuildTileSetThrows(i)
  \/ \E i \in Workers : i < conc /\ BuildTileSetDone(i)
  \/ JoinBuild
  \/ TransitBail
  \/ TransitBuild
  \/ \E i \in Workers : i < conc /\ AddTransit(i)
  \/ \E i \in Workers : i < conc /\ AddTransitThrows(i)
  \/ \E i \in Workers : i < conc /\ AddTransitDone(i)
  \/ JoinTransit

SpecThrow == Init /\ [][NextThrow]_vars

-----------------------------------------------------------------------------
(* SpecSigns: TransitBuilder::Build on tiles that hold signs *)

\* Largest number of signs in a tile.
MaxSigns == 2

\* The sign arrays the tile builder may leave in a tile of n directed edges:
\* every sign names a directed edge, and the array is sorted by edge index.
SortedSigns(n) ==
  UNION {{sg \in [1..m -> [edgeindex : 0..(n - 1)]] :
            \A k \in 1..(m - 1) : sg[k].edgeindex <= sg[k + 1].edgeindex} :
           m \in 0..MaxSigns}

\* The tiles BuildTileSet may write for tileid, with their signs.
SignedTiles(g, tileid) ==
  UNION {{[graphtile EXCEPT !.signs = sg] : sg \in SortedSigns(Len(graphtile.directededges))} :
           graphtile \in BuildTile(g, tileid)}

\* The state in which BuildLocalTiles returns, every tile written; the
\* transit feed holds a stop.
InitSigns ==
  /\ phase = "built"
  /\ transit \in {NoTransit(feed) : feed \in Feeds \ {<<>>}}
  /\ \E ways \in WayLists(MaxTileRefs - 2 * Len(transit.feed)), off \in 0..MaxOffset :
       /\ ways # <<>>
       /\ gb \in Built(ways, off)
  /\ cursor = MaxOsmId + 1
  /\ conc \in 1..MaxWorkers
  /\ lock = NoMutex
  /\ tiles \in {f \in [DOMAIN gb.tilednodes_ ->
                         UNION {SignedTiles(gb, t) : t \in DOMAIN gb.tilednodes_}] :
                  \A t \in DOMAIN gb.tilednodes_ : f[t] \in SignedTiles(gb, t)}
  /\ threads = [i \in 0..(conc - 1) |->
                  [range |-> <<>>, at |-> 0, done |-> TRUE, result |-> "value"]]
  /\ tilequeue = <<>>
  /\ vthreads = <<>>
  /\ log = [t \in DOMAIN gb.tilednodes_ |-> [NoLog({t})[t] EXCEPT !.built = 1]]
  /\ stats = validator_stats

NextSigns ==
  \/ TransitBail
  \/ TransitBuild
  \/ \E i \in Workers : i < conc /\ AddTransit(i)
  \/ \E i \in Workers : i < conc /\ AddTransitDone(i)
  \/ JoinTransit

SpecSigns == InitSigns /\ [][NextSigns]_vars

-----------------------------------------------------------------------------
(* SpecSpeed: way_callback on classifier outputs with and without speeds *)

\* The speed keys of a classifier output.
SpeedResults ==
  [has_speed : BOOLEAN, speed : 1..MaxSpeed,
   has_default_speed : BOOLEAN, default_speed : 1..MaxSpeed]

\* The speed lines 219-221, 336-342 and 384-387 may give a way: the "speed"
\* of the classifier's output if it has one, else the local default_speed,
\* which holds the "default_speed" of the output if it has one and was never
\* written otherwise, so that any value may be read from it.
AssignedSpeed(results) ==
  IF results.has_speed THEN {results.speed}
  ELSE IF results.has_default_speed THEN {results.default_speed}
  ELSE 0..MaxSpeed

\* What a call of way_callback may leave behind, for a classifier output
\* whose speed keys are `results`.
way_callbackCall(g, refs, accepted, results) ==
  {way_callback(g, refs, accepted, [ParseTags EXCEPT !.speed = sp]) :
     sp \in AssignedSpeed(results)}

\* log holds the speed keys of the last way read and whether it was stored.
InitSpeed ==
  /\ phase = "speed"
  /\ gb = NewGraphBuilder
  /\ cursor = 1
  /\ conc = 1
  /\ lock = NoMutex
  /\ tiles = <<>>
  /\ threads = <<>>
  /\ transit = NoTransit(<<>>)
  /\ tilequeue = <<>>
  /\ vthreads = <<>>
  /\ log = [called |-> FALSE, results |-> CHOOSE r \in SpeedResults : TRUE, stored |-> FALSE]
  /\ stats = validator_stats

\* read_osm_pbf(..., WAYS) hands one more way to way_callback
WaySpeedPass ==
  /\ phase = "speed"
  /\ Len(gb.ways_) < MaxSpeedWays
  /\ \E refs \in RefLists(2), results \in SpeedResults :
       /\ gb' \in way_callbackCall(gb, refs, TRUE, results)
       /\ log' = [called |-> TRUE, results |-> results,
                  stored |-> Len(gb'.ways_) > Len(gb.ways_)]
  /\ UNCHANGED <<phase, cursor, conc, lock, tiles, threads, transit, tilequeue, vthreads, stats>>

NextSpeed == WaySpeedPass

SpecSpeed == InitSpeed /\ [][NextSpeed]_vars

-----------------------------------------------------------------------------
(* SpecStats: GraphValidator::Validate on tiles that may hold links *)

\* The classifier output of a one-way link (part_000:320-321).
LinkTags ==
  [road_class |-> kResidential, auto_forward |-> TRUE, auto_backward |-> FALSE,
   pedestrian |-> TRUE, link |-> TRUE, speed |-> 1]

\* Input files of one way or two, each way a link or not, with two refs.
StatsWays ==
  LET one == {<<[refs |-> r, tags |-> t]>> :
                r \in {x \in RefLists(2) : Len(x) = 2}, t \in TagChoices \cup {LinkTags}}
  IN {w1 \o w2 : w1 \in one, w2 \in {<<>>} \cup one}

\* The state in which Validate is called: every tile written by
\* BuildTileSet, no transit stop and no shortcut added.
InitStats ==
  /\ phase = "hierarchy"
  /\ transit = NoTransit(<<>>)
  /\ \E ways \in StatsWays, off \in 0..MaxOffset : gb \in Built(ways, off)
  /\ cursor = MaxOsmId + 1
  /\ conc \in 1..MaxWorkers
  /\ lock = NoMutex
  /\ tiles \in {f \in [DOMAIN gb.tilednodes_ ->
                         UNION {BuildTile(gb, t) : t \in DOMAIN gb.tilednodes_}] :
                  \A t \in DOMAIN gb.tilednodes_ : f[t] \in BuildTile(gb, t)}
  /\ threads = [i \in 0..(conc - 1) |->
                  [range |-> <<>>, at |-> 0, done |-> TRUE, result |-> "value"]]
  /\ tilequeue = <<>>
  /\ vthreads = <<>>
  /\ log = [t \in DOMAIN gb.tilednodes_ |-> [NoLog({t})[t] EXCEPT !.built = 1]]
  /\ stats = validator_stats

NextStats ==
  \/ Validate
  \/ \E i \in Workers : i < conc /\ PopTile(i)
  \/ \E i \in Workers : i < conc /\ ValidateDone(i)
  \/ \E i \in Workers : i < conc /\ UpdateEdge(i)
  \/ \E i \in Workers : i < conc /\ UpdateTile(i)
  \/ JoinValidate

SpecStats == InitStats /\ [][NextStats]_vars

-----------------------------------------------------------------------------
(* SpecLock: the validate workers and the mutex they share, with fairness *)

\* Input files: a one-way way between two nodes, a one-way loop, and a
\* two-way way followed by a one-way way.
LockWays ==
  LET twoway == CHOOSE t \in TagChoices : t.auto_backward
      oneway == CHOOSE t \in TagChoices : ~t.auto_backward
  IN {<<[refs |-> <<1, 2>>, tags |-> oneway]>>,
      <<[refs |-> <<1, 1>>, tags |-> oneway]>>,
      <<[refs |-> <<1, 2>>, tags |-> twoway], [refs |-> <<2, 3>>, tags |-> oneway]>>}

\* The state in which Validate is called, its mutex modelled.
InitLock ==
  /\ phase = "hierarchy"
  /\ transit = NoTransit(<<>>)
  /\ \E ways \in LockWays, off \in 0..MaxOffset : gb \in Built(ways, off)
  /\ cursor = MaxOsmId + 1
  /\ conc \in 1..MaxWorkers
  /\ lock = Mutex(conc)
  /\ tiles \in {f \in [DOMAIN gb.tilednodes_ ->
                         UNION {BuildTile(gb, t) : t \in DOMAIN gb.tilednodes_}] :
                  \A t \in DOMAIN gb.tilednodes_ : f[t] \in BuildTile(gb, t)}
  /\ threads = [i \in 0..(conc - 1) |->
                  [range |-> <<>>, at |-> 0, done |-> TRUE, result |-> "value"]]
  /\ tilequeue = <<>>
  /\ vthreads = <<>>
  /\ log = [t \in DOMAIN gb.tilednodes_ |-> [NoLog({t})[t] EXCEPT !.built = 1]]
  /\ stats = validator_stats

NextLock ==
  \/ Validate
  \/ \E i \in Workers : i < conc /\ Acquire(i)
  \/ \E i \in Workers : i < conc /\ Release(i)
  \/ \E i \in Workers : i < conc /\ PopTile(i)
  \/ \E i \in Workers : i < conc /\ ValidateDone(i)
  \/ \E i \in Workers : i < conc /\ UpdateEdge(i)
  \/ \E i \in Workers : i < conc /\ UpdateTile(i)
  \/ JoinValidate

\* While some thread can take a step, the driver or a worker that does not
\* wait for a held mutex, one of them takes a step in the end. Nothing is
\* assumed of the order in which the mutex is handed to waiting workers.
SpecLock == InitLock /\ [][NextLock]_vars /\ WF_vars(NextLock)

-----------------------------------------------------------------------------
(* Helpers of the properties *)

RECURSIVE SumSeq(_)
SumSeq(s) == IF s = <<>> THEN 0 ELSE Head(s) + SumSeq(Tail(s))

\* Number of positions of refs that hold n.
Occurrences(refs, n) == Cardinality({i \in 1..Len(refs) : refs[i] = n})

\* Number of stored ways that reference n at least once.
WaysReferencing(g, n) ==
  Cardinality({w \in 1..Len(g.ways_) : Occurrences(g.ways_[w].refs, n) > 0})

\* Number of refs, over all stored ways, that are n.
TotalOccurrences(g, n) ==
  SumSeq([w \in 1..Len(g.ways_) |-> Occurrences(g.ways_[w].refs, n)])

\* n is the first or the last ref of a stored way.
IsWayEndpoint(g, n) ==
  \E w \in 1..Len(g.ways_) :
    \/ g.ways_[w].refs[1] = n
    \/ g.ways_[w].refs[Len(g.ways_[w].refs)] = n

\* The C++ index, in its way's refs, of the last ref edge e covers.
LastRef(e) == e.firstref + Len(e.latlngs_) - 1

-----------------------------------------------------------------------------
(* Properties of the parse phase *)

\* C4: after ConstructEdges the shape segments of all edges (shape points
\* minus one, summed over the edges) number the sum over the stored ways of
\* (refs minus one).
C4_EdgeConservation ==
  phase = "constructed" =>
    SumSeq([k \in 1..Len(gb.edges_) |-> Len(gb.edges_[k].latlngs_) - 1])
      = SumSeq([w \in 1..Len(gb.ways_) |-> Len(gb.ways_[w].refs) - 1])

\* Two ways were stored and one of them was split at an interior intersection.
C4_Witness ==
  /\ phase = "constructed"
  /\ Len(gb.ways_) = 2
  /\ Len(gb.edges_) > Len(gb.ways_)

\* C5: every edge starts and ends at a way endpoint or at a ref whose
\* intersection bit is set, and no ref strictly between its source and its
\* target along the way has the intersection bit set.
C5_IntersectionRule ==
  phase = "constructed" =>
    \A k \in 1..Len(gb.edges_) :
      LET e == gb.edges_[k]
          refs == gb.ways_[e.wayindex_ + 1].refs
      IN /\ LastRef(e) < Len(refs)
         /\ refs[e.firstref + 1] = e.sourcenode_
         /\ refs[LastRef(e) + 1] = e.targetnode_
         /\ e.firstref = 0 \/ IsUsed(gb.intersection_, e.sourcenode_)
         /\ LastRef(e) = Len(refs) - 1 \/ IsUsed(gb.intersection_, e.targetnode_)
         /\ \A j \in (e.firstref + 1)..(LastRef(e) - 1) :
              ~IsUsed(gb.intersection_, refs[j + 1])

\* An edge with an interior shape point exists beside a way that was split.
C5_Witness ==
  /\ phase = "constructed"
  /\ \E k \in 1..Len(gb.edges_) : Len(gb.edges_[k].latlngs_) > 2
  /\ \E k \in 1..Len(gb.edges_) : gb.edges_[k].firstref > 0

\* C6 as stated: after the way pass the intersection bit of n is set iff n is
\* referenced by at least two stored ways or is the first or last ref of one.
C6_AsClaimed ==
  phase # "ways" =>
    \A n \in NodeIds :
      IsUsed(gb.intersection_, n) <=>
        (WaysReferencing(gb, n) >= 2 \/ IsWayEndpoint(gb, n))

\* C6 amended: after the way pass the intersection bit of n is set iff n
\* occurs at least twice among the refs of the stored ways (two ways, or one
\* way visiting it twice) or is the first or last ref of a stored way.
C6_IntersectionBits ==
  phase # "ways" =>
    \A n \in NodeIds :
      IsUsed(gb.intersection_, n) <=>
        (TotalOccurrences(gb, n) >= 2 \/ IsWayEndpoint(gb, n))

\* After the way pass one node occurs once, inside a way, and is not an
\* intersection, and another is no way's endpoint and is an intersection.
C6_Witness ==
  /\ phase # "ways"
  /\ \E n \in NodeIds :
       /\ TotalOccurrences(gb, n) = 1 /\ ~IsWayEndpoint(gb, n)
       /\ ~IsUsed(gb.intersection_, n)
  /\ \E n \in NodeIds :
       /\ TotalOccurrences(gb, n) >= 2 /\ ~IsWayEndpoint(gb, n)
       /\ IsUsed(gb.intersection_, n)

-----------------------------------------------------------------------------
(* Helpers of the properties of the tiles *)

\* Number of OSM nodes of tile t; the nodes after them are stops.
OsmNodeCount(t) == Len(gb.tilednodes_[t])

\* The edge ranges of the nodes of a tile follow each other from 0 and end
\* at the end of the directed edge array.
RangesCover(tile) ==
  /\ \A k \in 1..Len(tile.nodes) :
       tile.nodes[k].edge_index =
         IF k = 1 THEN 0
         ELSE tile.nodes[k - 1].edge_index + tile.nodes[k - 1].edge_count
  /\ Len(tile.directededges) =
       IF Len(tile.nodes) = 0 THEN 0
       ELSE tile.nodes[Len(tile.nodes)].edge_index
              + tile.nodes[Len(tile.nodes)].edge_count

\* The directed edge at position j (1-based) of node k (1-based) of a tile.
EdgeOf(tile, k, j) == tile.directededges[tile.nodes[k].edge_index + j]

\* Number of directed edges in the range of node k that end at endnode,
\* among those at positions after `skip`.
EdgesTo(tile, k, skip, endnode) ==
  Cardinality({j \in (skip + 1)..tile.nodes[k].edge_count :
                 EdgeOf(tile, k, j).endnode = endnode})

\* The range of OSM node k of tile t holds one directed edge per entry of
\* the node's edge list, in order, each ending at the other end of the edge;
\* what follows are connections to stops of the tile.
LeavesOsmNode(t, tile, k) ==
  LET id == gb.tilednodes_[t][k]
      list == gb.nodes_[id].edges
  IN /\ tile.nodes[k].edge_count >= Len(list)
     /\ log[t].transit = 0 => tile.nodes[k].edge_count = Len(list)
     /\ \A j \in 1..Len(list) :
          /\ EdgeOf(tile, k, j).edgedataoffset = list[j]
          /\ EdgeOf(tile, k, j).endnode
               = gb.nodes_[OsmEndNode(EdgeAt(gb.edges_, list[j]), id)].graphid
     /\ \A j \in (Len(list) + 1)..tile.nodes[k].edge_count :
          /\ EdgeOf(tile, k, j).endnode.tileid = t
          /\ EdgeOf(tile, k, j).endnode.id >= OsmNodeCount(t)
          /\ EdgeOf(tile, k, j).endnode.id < Len(tile.nodes)

\* The range of stop k of tile t holds the connections from the stop: each
\* ends at an OSM node of the tile, which has as many connections to the stop.
LeavesStop(t, tile, k) ==
  /\ \A j \in 1..tile.nodes[k].edge_count :
       /\ EdgeOf(tile, k, j).endnode.tileid = t
       /\ EdgeOf(tile, k, j).endnode.id < OsmNodeCount(t)
  /\ \A m \in 1..OsmNodeCount(t) :
       EdgesTo(tile, k, 0, GraphId(t, m - 1))
         = EdgesTo(tile, m, Len(gb.nodes_[gb.tilednodes_[t][m]].edges), GraphId(t, k - 1))

\* The opposing index of directed edge j of node k of tile t is resolved.
Resolved(t, k, j) ==
  /\ EdgeOf(tiles[t], k, j).opp_index # kMaxEdgesPerNode
  /\ EdgeOf(tiles[t], k, j).opp_index
       < tiles[EdgeOf(tiles[t], k, j).endnode.tileid]
           .nodes[EdgeOf(tiles[t], k, j).endnode.id + 1].edge_count

\* The directed edge the opposing index of edge j of node k of tile t names.
Opposing(t, k, j) ==
  LET e == EdgeOf(tiles[t], k, j)
  IN EdgeOf(tiles[e.endnode.tileid], e.endnode.id + 1, e.opp_index + 1)

\* The positions <<tile, node, edge>> (1-based node and edge) of the
\* directed edges on disk.
DirectedEdgePositions ==
  UNION {UNION {{<<t, k, j>> : j \in 1..tiles[t].nodes[k].edge_count} :
                  k \in 1..Len(tiles[t].nodes)} :
           t \in DOMAIN tiles}

\* The tiles Validate found, as a tile store.
Before == [t \in DOMAIN tiles |-> log[t].before]

\* validate() on one tile by a lone worker that reads the tile store `disk`:
\* the updated directed edges of nodes i.. (0-based), in the order written.
RECURSIVE ValidatedEdges(_, _, _)
ValidatedEdges(disk, tile_id, i) ==
  IF i >= Len(disk[tile_id].nodes) THEN <<>>
  ELSE
    LET nodeinfo == disk[tile_id].nodes[i + 1]
    IN [j \in 1..nodeinfo.edge_count |->
          ValidateEdge(GraphId(tile_id, i),
                       disk[tile_id].directededges[nodeinfo.edge_index + j],
                       nodeinfo.iso,
                       disk[disk[tile_id].directededges[nodeinfo.edge_index + j]
                              .endnode.tileid]).edge]
         \o ValidatedEdges(disk, tile_id, i + 1)

ValidatedTile(disk, tile_id) ==
  [nodes |-> disk[tile_id].nodes,
   directededges |-> ValidatedEdges(disk, tile_id, 0),
   signs |-> disk[tile_id].signs]

\* A breadth-first search from the nodes of `queue`, over the edges other
\* than the start edge, finds the start node or an edge of tertiary or better
\* importance within the expansions left.
RECURSIVE BfsReaches(_, _, _, _, _, _, _)
BfsReaches(queue, visited, left, startnode, startedgeindex, nodes, edges) ==
  IF queue = <<>> \/ left = 0 THEN FALSE
  ELSE
    LET node == Head(queue)
        out == IF node \in DOMAIN nodes
                 THEN {nodes[node].edges[k] : k \in 1..Len(nodes[node].edges)}
                        \ {startedgeindex}
                 ELSE {}
        ends == {OsmEndNode(EdgeAt(edges, ei), node) : ei \in out}
        fresh == Ascending(ends \ visited)
    IN \/ startnode \in ends
       \/ \E ei \in out : EdgeAt(edges, ei).attributes_.importance <= kTertiaryUnclassified
       \/ BfsReaches(Tail(queue) \o fresh, visited \cup ends, left - 1,
                     startnode, startedgeindex, nodes, edges)

-----------------------------------------------------------------------------
(* Properties of the tiles *)

\* C1: in every tile on disk the edge ranges of the nodes are contiguous, do
\* not overlap and cover the directed edge array, and the range of a node
\* holds the directed edges that leave it: for an OSM node one per entry of
\* its edge list, in the list's order, followed (once the transit builder
\* rewrote the tile) by its connections to stops; for a stop its connections.
C1_NodeEdgeRanges ==
  \A t \in DOMAIN tiles :
    /\ RangesCover(tiles[t])
    /\ Len(tiles[t].nodes) >= OsmNodeCount(t)
    /\ log[t].transit = 0 => Len(tiles[t].nodes) = OsmNodeCount(t)
    /\ \A k \in 1..OsmNodeCount(t) : LeavesOsmNode(t, tiles[t], k)
    /\ \A k \in (OsmNodeCount(t) + 1)..Len(tiles[t].nodes) : LeavesStop(t, tiles[t], k)

\* A tile of two OSM nodes and a stop was rewritten by the transit builder,
\* which put a connection after the edges of the first node, before the
\* range of the second.
C1_Witness ==
  \E t \in DOMAIN tiles :
    /\ log[t].transit = 1
    /\ OsmNodeCount(t) >= 2
    /\ Len(tiles[t].nodes) > OsmNodeCount(t)
    /\ tiles[t].nodes[1].edge_count > Len(gb.nodes_[gb.tilednodes_[t][1]].edges)
    /\ tiles[t].nodes[2].edge_index = tiles[t].nodes[1].edge_count
    /\ tiles[t].nodes[2].edge_count > 0

\* C2: in a tile the validator has updated, a directed edge e leaving node s
\* whose opposing index is not the sentinel names, among the edges of its end
\* node, a directed edge that ends at s, has the length of e and has the
\* shortcut flag of e.
C2_OpposingEdge ==
  \A p \in DirectedEdgePositions :
    (/\ log[p[1]].updated > 0
     /\ EdgeOf(tiles[p[1]], p[2], p[3]).opp_index # kMaxEdgesPerNode)
      => /\ Resolved(p[1], p[2], p[3])
         /\ Opposing(p[1], p[2], p[3]).endnode = GraphId(p[1], p[2] - 1)
         /\ Opposing(p[1], p[2], p[3]).length = EdgeOf(tiles[p[1]], p[2], p[3]).length
         /\ Opposing(p[1], p[2], p[3]).shortcut = EdgeOf(tiles[p[1]], p[2], p[3]).shortcut

\* A validated shortcut edge has a resolved opposing edge while its end node
\* also has a regular edge of the same length back to its start node.
C2_Witness ==
  \E p \in DirectedEdgePositions :
    /\ log[p[1]].updated > 0
    /\ EdgeOf(tiles[p[1]], p[2], p[3]).shortcut
    /\ Resolved(p[1], p[2], p[3])
    /\ LET e == EdgeOf(tiles[p[1]], p[2], p[3])
           endtile == tiles[e.endnode.tileid]
       IN \E j \in 1..endtile.nodes[e.endnode.id + 1].edge_count :
            /\ ~EdgeOf(endtile, e.endnode.id + 1, j).shortcut
            /\ EdgeOf(endtile, e.endnode.id + 1, j).endnode = GraphId(p[1], p[2] - 1)
            /\ EdgeOf(endtile, e.endnode.id + 1, j).length = e.length

\* C3 as stated: once every tile is validated, the opposing edge of a
\* directed edge e with a resolved opposing index names e in turn.
C3_Involution ==
  phase = "validated" =>
    \A p \in DirectedEdgePositions :
      Resolved(p[1], p[2], p[3]) =>
        /\ Opposing(p[1], p[2], p[3]).endnode = GraphId(p[1], p[2] - 1)
        /\ Opposing(p[1], p[2], p[3]).opp_index = p[3] - 1

\* C7: a directed edge of an OSM node that the tile builder marked not_thru
\* is one from whose end node a breadth-first search over the other edges
\* finds neither the edge's start node nor an edge of tertiary or better
\* importance within kMaxNoThruTries expansions.
C7_NotThru ==
  \A t \in DOMAIN tiles :
    \A k \in 1..OsmNodeCount(t) :
      LET id == gb.tilednodes_[t][k]
          list == gb.nodes_[id].edges
      IN \A j \in 1..Len(list) :
           EdgeOf(tiles[t], k, j).not_thru =>
             LET endnode == OsmEndNode(EdgeAt(gb.edges_, list[j]), id)
             IN ~BfsReaches(<<endnode>>, {endnode}, kMaxNoThruTries,
                            id, list[j], gb.nodes_, gb.edges_)

\* A tile holds a directed edge marked not_thru and a residential one that is
\* not.
C7_Witness ==
  /\ \E p \in DirectedEdgePositions : EdgeOf(tiles[p[1]], p[2], p[3]).not_thru
  /\ \E p \in DirectedEdgePositions :
       /\ ~EdgeOf(tiles[p[1]], p[2], p[3]).not_thru
       /\ EdgeOf(tiles[p[1]], p[2], p[3]).importance = kResidential

\* C8: when the tile of a directed edge e and the tile of its end node are
\* both validated and the opposing index of e is resolved, e and its opposing
\* edge have the same country crossing flag.
C8_CountryCrossing ==
  \A p \in DirectedEdgePositions :
    (/\ log[p[1]].updated > 0
     /\ log[EdgeOf(tiles[p[1]], p[2], p[3]).endnode.tileid].updated > 0
     /\ Resolved(p[1], p[2], p[3]))
      => EdgeOf(tiles[p[1]], p[2], p[3]).ctry_crossing
           = Opposing(p[1], p[2], p[3]).ctry_crossing

\* Every tile is validated and an edge between two tiles crosses a border.
C8_Witness ==
  /\ phase = "validated"
  /\ \E p \in DirectedEdgePositions :
       /\ Resolved(p[1], p[2], p[3])
       /\ EdgeOf(tiles[p[1]], p[2], p[3]).ctry_crossing
       /\ EdgeOf(tiles[p[1]], p[2], p[3]).endnode.tileid # p[1]

RECURSIVE Handed(_, _)
Handed(workers, i) ==
  IF i \notin DOMAIN workers THEN <<>>
  ELSE workers[i].range \o Handed(workers, i + 1)

\* seq holds every element of elems once and nothing else.
IsArrangementOf(seq, elems) ==
  /\ Len(seq) = Cardinality(elems)
  /\ {seq[k] : k \in 1..Len(seq)} = elems

-----------------------------------------------------------------------------
(* Properties of the phases when a worker throws *)

\* C11 as stated: a driver that joined its workers does not return as if
\* the phase succeeded when the result of a worker holds an exception, and
\* an exception a worker throws never ends the process instead of reaching
\* the driver through the worker's result.
C11_Rethrows ==
  /\ phase = "built" => \A i \in DOMAIN threads : threads[i].result # "exception"
  /\ phase # "terminated"

-----------------------------------------------------------------------------
(* Properties of the validator's statistics *)

\* C12 as stated: once Validate has joined its workers and merged their
\* results, every directed edge a worker handed to AddTask is among the tasks
\* of the merged statistics, from which the suspect list is written.
C12_SuspectsMerged ==
  phase = "validated" =>
    \A i \in DOMAIN vthreads : vthreads[i].roulette_data \subseteq stats.roulette_data

-----------------------------------------------------------------------------
(* Properties of NodeIdTable *)

\* C13 as stated: whatever ids were set, IsUsed(i) returns true for an id
\* that was set and false for an id that was never set.
C13_IsUsedIffSet ==
  log.op = "IsUsed" => (log.used <=> log.id \in gb.inserted)

\* C14: a call of set(id) fails exactly when id is greater than the declared
\* maximum, and a call that fails leaves every word of the table as it was.
C14_SetRange ==
  log.op = "set" =>
    /\ log.threw <=> log.id > TableMax
    /\ log.threw => gb.table = log.before
    /\ ~log.threw => IsUsed(gb.table, log.id)

\* set(TableMax + 1) failed on a table that holds the bit of TableMax and a
\* bit of its first word.
C14_Witness ==
  /\ log.op = "set" /\ log.threw /\ log.id = TableMax + 1
  /\ {0, TableMax} \subseteq gb.inserted

-----------------------------------------------------------------------------
(* Properties of the node pass *)

\* The shape bit of id is set: its word exists and holds the bit.
ShapeBit(g, id) ==
  /\ id \div kWordBits \in DOMAIN g.shape_.bitmarkers_
  /\ IsUsed(g.shape_, id)

\* C15 as stated: every id stored in the node table has its bit set in the
\* shape bitset, and a node callback for an id that no stored way references
\* leaves the node table unchanged.
C15_NodesInShape ==
  [][/\ \A id \in DOMAIN gb'.nodes_ : ShapeBit(gb', id)
     /\ (phase = "nodes" /\ cursor' = cursor + 1
           /\ TotalOccurrences(gb, FileNode(cursor)) = 0)
          => gb'.nodes_ = gb.nodes_]_vars

-----------------------------------------------------------------------------
(* Properties of the signs *)

\* Number of connections to stops among the first n directed edges of tile:
\* their edge info is not that of an edge of the graph builder.
ConnectionsAmong(tile, n) ==
  Cardinality({k \in 1..n : tile.directededges[k].edgedataoffset < 0})

\* The signs of a tile are sorted by edge index.
SignsSorted(tile) ==
  \A k \in 1..(Len(tile.signs) - 1) :
    tile.signs[k].edgeindex <= tile.signs[k + 1].edgeindex

-----------------------------------------------------------------------------
(* Properties of not_thru against the search the specification describes *)

\* The breadth-first search that walks the frontier: it takes a node from
\* the frontier, expands its edges other than the start edge and never
\* visits a node twice. TRUE when the frontier empties within the expansions
\* left with neither the start node nor an edge of tertiary or better
\* importance found.
RECURSIVE BfsEmpties(_, _, _, _, _, _, _)
BfsEmpties(queue, visited, left, startnode, startedgeindex, nodes, edges) ==
  IF queue = <<>> THEN TRUE
  ELSE IF left = 0 THEN FALSE
  ELSE
    LET node == Head(queue)
        out == IF node \in DOMAIN nodes
                 THEN {nodes[node].edges[k] : k \in 1..Len(nodes[node].edges)}
                        \ {startedgeindex}
                 ELSE {}
        ends == {OsmEndNode(EdgeAt(edges, ei), node) : ei \in out}
        fresh == Ascending(ends \ visited)
    IN /\ startnode \notin ends
       /\ \A ei \in out : EdgeAt(edges, ei).attributes_.importance > kTertiaryUnclassified
       /\ BfsEmpties(Tail(queue) \o fresh, visited \cup ends, left - 1,
                     startnode, startedgeindex, nodes, edges)

\* C17 as stated: a directed edge of importance above tertiary is marked
\* not_thru if and only if the search that walks the frontier from its end
\* node empties the frontier within kMaxNoThruTries expansions without
\* finding the edge's start node or an edge of tertiary or better importance.
C17_NotThruIff ==
  \A t \in DOMAIN tiles :
    \A k \in 1..OsmNodeCount(t) :
      LET id == gb.tilednodes_[t][k]
          list == gb.nodes_[id].edges
      IN \A j \in 1..Len(list) :
           EdgeOf(tiles[t], k, j).importance > kTertiaryUnclassified =>
             LET endnode == OsmEndNode(EdgeAt(gb.edges_, list[j]), id)
             IN EdgeOf(tiles[t], k, j).not_thru
                  <=> BfsEmpties(<<endnode>>, {endnode}, kMaxNoThruTries,
                                 id, list[j], gb.nodes_, gb.edges_)

-----------------------------------------------------------------------------
(* Properties of SortEdgesFromNodes *)

\* sorted with x put behind every element that x does not go before.
RECURSIVE InsertBehind(_, _, _, _)
InsertBehind(edges, osmnodeid, sorted, x) ==
  IF sorted = <<>> THEN <<x>>
  ELSE IF EdgeSorter(edges, osmnodeid, x, Head(sorted)) THEN <<x>> \o sorted
  ELSE <<Head(sorted)>> \o InsertBehind(edges, osmnodeid, Tail(sorted), x)

\* The stable sort of list: the elements the order ties stay in the order
\* they have in list.
RECURSIVE StableSort(_, _, _, _)
StableSort(edges, osmnodeid, list, k) ==
  IF k = 0 THEN <<>>
  ELSE InsertBehind(edges, osmnodeid, StableSort(edges, osmnodeid, list, k - 1), list[k])

\* In list the edges driveable at the node come before those that are not,
\* and within each group importance does not decrease.
DriveableFirst(edges, osmnodeid, list) ==
  \A a, b \in 1..Len(list) :
    a < b =>
      /\ DriveableAt(edges, osmnodeid, list[b]) => DriveableAt(edges, osmnodeid, list[a])
      /\ DriveableAt(edges, osmnodeid, list[a]) = DriveableAt(edges, osmnodeid, list[b])
           => EdgeAt(edges, list[a]).attributes_.importance
                <= EdgeAt(edges, list[b]).attributes_.importance

\* C18 as stated: SortEdgesFromNodes leaves in every node's edge list the
\* edges it held, those driveable at the node first and importance not
\* decreasing within each group, and edges that tie keep their insertion
\* order: the list is the stable sort of the list before.
C18_StableSort ==
  [][(phase = "constructed" /\ phase' = "sorted") =>
       \A id \in DOMAIN gb.nodes_ :
         /\ DriveableFirst(gb.edges_, id, gb'.nodes_[id].edges)
         /\ gb'.nodes_[id].edges
              = StableSort(gb.edges_, id, gb.nodes_[id].edges, Len(gb.nodes_[id].edges))]_vars

-----------------------------------------------------------------------------
(* Properties of TileNodes *)

\* osmid is an entry of the node list of some tile.
InTileList(g, osmid) ==
  \E t \in DOMAIN g.tilednodes_ :
    \E k \in 1..Len(g.tilednodes_[t]) : g.tilednodes_[t][k] = osmid

\* C19: after TileNodes a node with an edge has a valid graph id whose tile
\* is the tile of its coordinate and whose index names the node's own OSM id
\* in that tile's node list, no two such nodes have the same graph id, and a
\* node without edges is in no tile's node list and has no valid graph id.
C19_GraphIds ==
  phase = "tiled" =>
    /\ \A osmid \in DOMAIN gb.nodes_ :
         LET node == gb.nodes_[osmid]
         IN IF Len(node.edges) > 0
              THEN /\ node.graphid.valid
                   /\ node.graphid.tileid = GetGraphId(node.latlng).tileid
                   /\ node.graphid.tileid \in DOMAIN gb.tilednodes_
                   /\ node.graphid.id \in 0..(Len(gb.tilednodes_[node.graphid.tileid]) - 1)
                   /\ gb.tilednodes_[node.graphid.tileid][node.graphid.id + 1] = osmid
              ELSE /\ ~node.graphid.valid
                   /\ ~InTileList(gb, osmid)
    /\ \A a, b \in DOMAIN gb.nodes_ :
         (a # b /\ Len(gb.nodes_[a].edges) > 0 /\ Len(gb.nodes_[b].edges) > 0)
           => gb.nodes_[a].graphid # gb.nodes_[b].graphid

\* TileNodes has put two nodes into one tile and has skipped a node without
\* edges.
C19_Witness ==
  /\ phase = "tiled"
  /\ \E t \in DOMAIN gb.tilednodes_ : Len(gb.tilednodes_[t]) = 2
  /\ \E osmid \in DOMAIN gb.nodes_ : Len(gb.nodes_[osmid].edges) = 0

-----------------------------------------------------------------------------
(* Properties of the directed edges of an edge *)

\* The positions of the directed edges built from edge e of the graph
\* builder: those whose edge info is that of e.
DirectedEdgesOf(e) ==
  {p \in DirectedEdgePositions : EdgeOf(tiles[p[1]], p[2], p[3]).edgedataoffset = e}

\* The directed edge at position p is stored at the node with graph id
\* `from`, ends at `to` and has orientation `forward`.
Runs(p, from, to, forward) ==
  /\ GraphId(p[1], p[2] - 1) = from
  /\ EdgeOf(tiles[p[1]], p[2], p[3]).endnode = to
  /\ EdgeOf(tiles[p[1]], p[2], p[3]).forward = forward

\* C20 as stated: once every tile is written, each edge of ConstructEdges has
\* exactly two directed edges in the tiles, a forward one stored at its
\* source node and ending at its target node and a reverse one stored at its
\* target node and ending at its source node, also when source and target are
\* the same node.
C20_ForwardAndReverse ==
  phase \notin {"tiled", "building"} =>
    \A e \in 0..(Len(gb.edges_) - 1) :
      LET source == gb.nodes_[EdgeAt(gb.edges_, e).sourcenode_].graphid
          target == gb.nodes_[EdgeAt(gb.edges_, e).targetnode_].graphid
      IN /\ Cardinality(DirectedEdgesOf(e)) = 2
         /\ \E p \in DirectedEdgesOf(e) : Runs(p, source, target, TRUE)
         /\ \E p \in DirectedEdgesOf(e) : Runs(p, target, source, FALSE)

-----------------------------------------------------------------------------
(* Properties of the access masks *)

\* C21: for every directional mode the forward access bit of a forward
\* directed edge is the way's forward flag and its reverse access bit the
\* way's backward flag, for a reverse directed edge the two are swapped, and
\* the pedestrian bit is in both masks of both orientations exactly when the
\* way allows pedestrians.
C21_AccessByOrientation ==
  log.made =>
    /\ \A m \in DirectionalModes :
         IF log.edge.forward
           THEN /\ m \in log.edge.forwardaccess <=> m \in gb.forward
                /\ m \in log.edge.reverseaccess <=> m \in gb.backward
           ELSE /\ m \in log.edge.forwardaccess <=> m \in gb.backward
                /\ m \in log.edge.reverseaccess <=> m \in gb.forward
    /\ "pedestrian" \in log.edge.forwardaccess <=> gb.pedestrian
    /\ "pedestrian" \in log.edge.reverseaccess <=> gb.pedestrian

\* A reverse directed edge was constructed from a way that buses may travel
\* forward only, bicycles backward only, and pedestrians may use.
C21_Witness ==
  /\ log.made /\ ~log.edge.forward
  /\ "bus" \in gb.forward \ gb.backward
  /\ "bike" \in gb.backward \ gb.forward
  /\ gb.pedestrian

-----------------------------------------------------------------------------
(* Properties of the validator's duplicates and missing opposing edges *)

\* The local indices, among the directed edges of the end node of the
\* directed edge at position p, of those that end at p's node and have the
\* shortcut flag and the length of the edge at p.
MatchesAt(p) ==
  LET e == EdgeOf(tiles[p[1]], p[2], p[3])
      endtile == tiles[e.endnode.tileid]
  IN {j \in 0..(endtile.nodes[e.endnode.id + 1].edge_count - 1) :
        /\ EdgeOf(endtile, e.endnode.id + 1, j + 1).endnode = GraphId(p[1], p[2] - 1)
        /\ EdgeOf(endtile, e.endnode.id + 1, j + 1).shortcut = e.shortcut
        /\ EdgeOf(endtile, e.endnode.id + 1, j + 1).length = e.length}

\* The positions of the directed edges of tile t.
PositionsOf(t) == {p \in DirectedEdgePositions : p[1] = t}

\* The matches beyond the first, summed over the directed edges of tile t.
DuplicatesOf(t) ==
  LET ps == PositionsOf(t)
      extra == [p \in ps |-> IF MatchesAt(p) = {} THEN 0 ELSE Cardinality(MatchesAt(p)) - 1]
      Sum[S \in SUBSET ps] ==
        IF S = {} THEN 0
        ELSE LET x == CHOOSE y \in S : TRUE IN extra[x] + Sum[S \ {x}]
  IN Sum[ps]

\* C22: a directed edge with more than one match at its end node gets, when
\* its tile is validated, the last of the matching indices, which depends on
\* the end node's edge list alone; and the duplicate counter of a worker that
\* has gone through a tile holds the number of matches beyond the first of
\* the tile's directed edges.
C22_Duplicates ==
  /\ \A p \in DirectedEdgePositions :
       (log[p[1]].updated > 0 /\ Cardinality(MatchesAt(p)) > 1)
         => /\ EdgeOf(tiles[p[1]], p[2], p[3]).opp_index \in MatchesAt(p)
            /\ \A j \in MatchesAt(p) : j <= EdgeOf(tiles[p[1]], p[2], p[3]).opp_index
  /\ \A i \in DOMAIN vthreads :
       (phase = "validating" /\ vthreads[i].pc = "update")
         => vthreads[i].dupcount = DuplicatesOf(vthreads[i].tile_id)

\* A worker has gone through a tile in which two directed edges of one node
\* run to another node over the same length, and an updated tile holds such
\* an edge.
C22_Witness ==
  /\ \E i \in DOMAIN vthreads :
       /\ phase = "validating" /\ vthreads[i].pc = "update"
       /\ vthreads[i].dupcount >= 2
  /\ \E p \in DirectedEdgePositions :
       /\ log[p[1]].updated > 0
       /\ Cardinality(MatchesAt(p)) > 1
       /\ EdgeOf(tiles[p[1]], p[2], p[3]).endnode # GraphId(p[1], p[2] - 1)


\* C23: a directed edge that no directed edge of its end node matches gets
\* the index kMaxEdgesPerNode when its tile is validated; the other edges of
\* the tile are validated all the same, and once the validation is over every
\* tile was rewritten once with as many directed edges as it had.
C23_MissingOpposing ==
  /\ \A p \in DirectedEdgePositions :
       log[p[1]].updated > 0 =>
         IF MatchesAt(p) = {}
           THEN EdgeOf(tiles[p[1]], p[2], p[3]).opp_index = kMaxEdgesPerNode
           ELSE EdgeOf(tiles[p[1]], p[2], p[3]).opp_index \in MatchesAt(p)
  /\ phase = "validated" =>
       \A t \in DOMAIN tiles :
         /\ log[t].updated = 1
         /\ Len(tiles[t].directededges) = Len(log[t].before.directededges)

\* The validation is over; in one tile a directed edge has no opposing edge
\* and a directed edge behind it has one.
C23_Witness ==
  /\ phase = "validated"
  /\ \E p, q \in DirectedEdgePositions :
       /\ p[1] = q[1]
       /\ p[2] < q[2]
       /\ MatchesAt(p) = {}
       /\ EdgeOf(tiles[p[1]], p[2], p[3]).opp_index = kMaxEdgesPerNode
       /\ EdgeOf(tiles[q[1]], q[2], q[3]).opp_index \in MatchesAt(q)


\* The iso of the node a directed edge leaves, and of the node it ends at.
SourceIso(p) == tiles[p[1]].nodes[p[2]].iso

EndIso(p) ==
  LET e == EdgeOf(tiles[p[1]], p[2], p[3])
  IN tiles[e.endnode.tileid].nodes[e.endnode.id + 1].iso

\* C24 (as amended): a validated directed edge whose source node and end
\* node both have a country ISO code, the two codes being different, has its
\* country_crossing flag set.
C24_CrossingSet ==
  \A p \in DirectedEdgePositions :
    (/\ log[p[1]].updated > 0
     /\ SourceIso(p) # ""
     /\ EndIso(p) # ""
     /\ SourceIso(p) # EndIso(p))
      => EdgeOf(tiles[p[1]], p[2], p[3]).ctry_crossing

\* A validated edge leads from one country into another.
C24_Witness ==
  \E p \in DirectedEdgePositions :
    /\ log[p[1]].updated > 0
    /\ SourceIso(p) # ""
    /\ EndIso(p) # ""
    /\ SourceIso(p) # EndIso(p)
    /\ EdgeOf(tiles[p[1]], p[2], p[3]).ctry_crossing

\* C24 as claimed: a validated directed edge whose end node has a country ISO
\* code different from the source node's has its country_crossing flag set,
\* whether the source node has a code or not.
C24_AsClaimed ==
  \A p \in DirectedEdgePositions :
    (/\ log[p[1]].updated > 0
     /\ EndIso(p) # ""
     /\ SourceIso(p) # EndIso(p))
      => EdgeOf(tiles[p[1]], p[2], p[3]).ctry_crossing


\* The sum over the workers' results of the value each holds for a key.
RECURSIVE WorkerSum(_, _, _)
WorkerSum(field, key, i) ==
  IF i \notin DOMAIN vthreads THEN 0
  ELSE ValueAt(vthreads[i][field], key) + WorkerSum(field, key, i + 1)

\* The keys the workers' results hold in a map.
WorkerKeys(field) == UNION {DOMAIN vthreads[i][field] : i \in DOMAIN vthreads}

\* Once Validate has merged the workers' results, the road length and the
\* one-way length of every tile and of every country, for each road class,
\* are the sums of the workers' values.
MergedSums ==
  phase = "validated" =>
    \A field \in {"tile_lengths", "tile_one_way", "country_lengths", "country_one_way"} :
      \A key \in WorkerKeys(field) \cup DOMAIN stats[field] :
        ValueAt(stats[field], key) = WorkerSum(field, key, 0)

\* C25 as stated: once Validate has merged the workers' results, every
\* aggregate is the sum of the workers' values, and every tile a worker
\* recorded an area for has that area in the merged statistics.
C25_MergedStatistics ==
  /\ MergedSums
  /\ phase = "validated" =>
       \A i \in DOMAIN vthreads :
         \A id \in DOMAIN vthreads[i].tile_areas :
           /\ id \in DOMAIN stats.tile_areas
           /\ stats.tile_areas[id] = vthreads[i].tile_areas[id]


\* C27 as stated: ConstructEdges does not return when a stored way references
\* a node the node pass did not store, so that after it every ref of a stored
\* way, and with it every endpoint and shape point of an edge, is a stored
\* node.
C27_MissingNodeAborts ==
  phase = "constructed" =>
    \A w \in 1..Len(gb.ways_) :
      \A i \in 1..Len(gb.ways_[w].refs) : gb.ways_[w].refs[i] \in log

-----------------------------------------------------------------------------
(* Properties of what validate leaves alone *)

\* C28: a tile validate has rewritten holds the nodes and the signs it held
\* when Validate was called, in the same order and with the same edge_index
\* and edge_count, and as many directed edges, each of them the edge that was
\* at its place but for its opposing index and its country_crossing flag.
C28_ValidateFrame ==
  \A t \in DOMAIN tiles :
    log[t].updated > 0 =>
      /\ tiles[t].nodes = log[t].before.nodes
      /\ tiles[t].signs = log[t].before.signs
      /\ Len(tiles[t].directededges) = Len(log[t].before.directededges)
      /\ \A k \in 1..Len(tiles[t].directededges) :
           [tiles[t].directededges[k] EXCEPT
              !.opp_index = log[t].before.directededges[k].opp_index,
              !.ctry_crossing = log[t].before.directededges[k].ctry_crossing]
             = log[t].before.directededges[k]

\* A rewritten tile holds an edge of some length whose opposing index and
\* country_crossing flag both changed.
C28_Witness ==
  \E t \in DOMAIN tiles :
    /\ log[t].updated > 0
    /\ \E k \in 1..Len(tiles[t].directededges) :
         /\ tiles[t].directededges[k].length > 0
         /\ tiles[t].directededges[k].opp_index # log[t].before.directededges[k].opp_index
         /\ tiles[t].directededges[k].ctry_crossing
         /\ ~log[t].before.directededges[k].ctry_crossing

-----------------------------------------------------------------------------
(* Properties of the validator's mutex *)

\* Validate has returned: the queue is empty, the mutex is free and every
\* worker has set its result.
ValidateReturned ==
  /\ phase = "validated"
  /\ tilequeue = <<>>
  /\ lock.holder = {}
  /\ \A i \in DOMAIN vthreads : vthreads[i].pc = "done"

\* C29: once Validate has started its workers it returns in the end, the
\* queue empty, the mutex free and every worker's result set; and a worker
\* that has set its result takes no further step.
C29_ValidationCompletes ==
  /\ (phase = "validating") ~> ValidateReturned
  /\ [][\A i \in DOMAIN vthreads :
          vthreads[i].pc = "done" => vthreads'[i] = vthreads[i]]_vars

\* Validate has returned after two workers validated a tile each, both of
\* which had to take the mutex several times for one edge.
C29_Witness ==
  /\ ValidateReturned
  /\ lock.modelled
  /\ conc = 2
  /\ \A i \in DOMAIN vthreads : vthreads[i].dups # <<>>

-----------------------------------------------------------------------------
(* Properties of the nodes' edge lists *)

\* How often the edge list of node id holds edge index k.
Recorded(g, id, k) == Occurrences(g.nodes_[id].edges, k)

\* The number of entries of all edge lists together.
ListEntries(g) ==
  LET order == Ascending(DOMAIN g.nodes_)
  IN SumSeq([n \in 1..Len(order) |-> Len(g.nodes_[order[n]].edges)])

\* Each list holds indexes of edges only, the lists hold twice as many
\* entries as there are edges, both end nodes of an edge have an edge and,
\* once TileNodes has run, a valid graph id.
EndpointsTiled(g) ==
  /\ \A id \in DOMAIN g.nodes_ :
       \A n \in 1..Len(g.nodes_[id].edges) :
         g.nodes_[id].edges[n] \in 0..(Len(g.edges_) - 1)
  /\ ListEntries(g) = 2 * Len(g.edges_)
  /\ \A k \in 0..(Len(g.edges_) - 1) :
       \A id \in {EdgeAt(g.edges_, k).sourcenode_, EdgeAt(g.edges_, k).targetnode_} :
         /\ id \in DOMAIN g.nodes_
         /\ Len(g.nodes_[id].edges) > 0
         /\ phase = "tiled" => g.nodes_[id].graphid.valid

\* C30, amended: after ConstructEdges the list of a node holds edge index k
\* once if the node is the source of edge k, once more if it is its target
\* (so twice if it is both) and not at all if it is neither; the lists hold
\* twice as many entries as there are edges; both end nodes of every edge
\* have an edge and, after TileNodes, a valid graph id.
C30_IncidentLists ==
  phase \in {"constructed", "sorted", "tiled"} =>
    /\ \A k \in 0..(Len(gb.edges_) - 1) :
         \A id \in DOMAIN gb.nodes_ :
           Recorded(gb, id, k) =
             (IF EdgeAt(gb.edges_, k).sourcenode_ = id THEN 1 ELSE 0)
               + (IF EdgeAt(gb.edges_, k).targetnode_ = id THEN 1 ELSE 0)
    /\ EndpointsTiled(gb)

\* TileNodes has run over a graph with an edge from a node to itself and an
\* edge between two nodes.
C30_Witness ==
  /\ phase = "tiled"
  /\ \E k \in 0..(Len(gb.edges_) - 1) :
       EdgeAt(gb.edges_, k).sourcenode_ = EdgeAt(gb.edges_, k).targetnode_
  /\ \E k \in 0..(Len(gb.edges_) - 1) :
       EdgeAt(gb.edges_, k).sourcenode_ # EdgeAt(gb.edges_, k).targetnode_

\* C30 as stated: after ConstructEdges edge index k is once in the list of
\* the source of edge k, once in the list of its target and in no other
\* list; the lists hold twice as many entries as there are edges; both end
\* nodes of every edge have an edge and, after TileNodes, a valid graph id.
C30_AsClaimed ==
  phase \in {"constructed", "sorted", "tiled"} =>
    /\ \A k \in 0..(Len(gb.edges_) - 1) :
         /\ Recorded(gb, EdgeAt(gb.edges_, k).sourcenode_, k) = 1
         /\ Recorded(gb, EdgeAt(gb.edges_, k).targetnode_, k) = 1
         /\ \A id \in DOMAIN gb.nodes_ :
              id \notin {EdgeAt(gb.edges_, k).sourcenode_, EdgeAt(gb.edges_, k).targetnode_}
                => Recorded(gb, id, k) = 0
    /\ EndpointsTiled(gb)

-----------------------------------------------------------------------------
(* Properties of the speed of a way *)

\* C26 as stated: a way whose classifier output has neither a speed nor a
\* default_speed is not stored.
C26_NoSpeedRejected ==
  (/\ log.called
   /\ ~log.results.has_speed
   /\ ~log.results.has_default_speed)
    => ~log.stored
====
